---- MODULE Spec2Model ----
(***************************************************************************)
(* Email support sessions: the reply pipeline Router -> Policy -> Executor *)
(* of api/email_session.py, the coordinator and agents of agents.py, the   *)
(* tool-calling loop of call_gpt.py and the sqlite tables of db.py.        *)
(***************************************************************************)
EXTENDS Integers, Sequences, FiniteSets, TLC

(***************************************************************************)
(* Bounds of the model.                                                    *)
(***************************************************************************)
\* customer messages taken in, over all sessions
MaxReplies == 1

\* customer messages taken in by the session whose turns run to the round
\* limit
MaxRoundReplies == 2
\* rows of tool_calls above which the model requests no further tool
MaxToolCalls == 2
\* customer messages taken in, over all sessions, when callers reply at the
\* same time
MaxConcurrentReplies == 2
\* the largest max_turns MultiAgentSystem.run is called with
MaxTurns == 3

(***************************************************************************)
(* Program constants.                                                      *)
(***************************************************************************)
\* agents.py:59, the max_tool_rounds LLMAgent.act passes to the gateway
max_tool_rounds == 5
\* email_session.py:387, the max_turns reply passes to MultiAgentSystem.run
REPLY_MAX_TURNS == 1

NO_TEXT_OUTPUT == "(no text output)"
ESCALATION_ACK ==
    "Thank you for reaching out. We've escalated your request to our team. A team member will follow up with you shortly."
APOLOGY == "I apologize, I couldn't process that. Please try again."
MAS_SYSTEM_PROMPT == "You are a team of agents collaborating to assist the user."

(***************************************************************************)
(* Python values.  A value carries its type; a dict is the sequence of its *)
(* <<key, value>> items in insertion order.                                *)
(***************************************************************************)
PyStr(s) == [t |-> "str", v |-> s]
PyBool(b) == [t |-> "bool", v |-> b]
PyNone == [t |-> "NoneType", v |-> <<>>]
PyDict(items) == [t |-> "dict", v |-> items]

IsDict(x) == x.t = "dict"

HasKey(d, k) == \E i \in DOMAIN d.v : d.v[i][1] = k

\* dict.get(k, default)
DictGet(d, k, default) ==
    IF HasKey(d, k)
    THEN d.v[CHOOSE i \in DOMAIN d.v : d.v[i][1] = k][2]
    ELSE default

\* a value used in a boolean context
Truthy(x) ==
    CASE x.t = "str" -> x.v # ""
      [] x.t = "bool" -> x.v
      [] x.t = "NoneType" -> FALSE
      [] x.t = "dict" -> x.v # <<>>

(***************************************************************************)
(* json.dumps writes the text of a value; json.loads reads a text back and *)
(* fails on a text that is no JSON document.                               *)
(***************************************************************************)
RECURSIVE json_dumps(_)
RECURSIVE DumpItems(_, _)
DumpItems(items, i) ==
    IF i > Len(items) THEN ""
    ELSE (IF i > 1 THEN ", " ELSE "")
         \o "\"" \o items[i][1] \o "\": " \o json_dumps(items[i][2])
         \o DumpItems(items, i + 1)

json_dumps(x) ==
    CASE x.t = "str" -> "\"" \o x.v \o "\""
      [] x.t = "bool" -> (IF x.v THEN "true" ELSE "false")
      [] x.t = "NoneType" -> "null"
      [] x.t = "dict" -> "{" \o DumpItems(x.v, 1) \o "}"

(***************************************************************************)
(* The values and texts of the model.                                      *)
(***************************************************************************)
\* email_session.py:233-242, the names _build_tools registers
REGISTERED_TOOLS ==
    {"shopify_get_order_details", "shopify_get_customer_orders",
     "shopify_refund_order", "shopify_create_store_credit",
     "skio_get_subscription_status", "skio_pause_subscription",
     "skio_cancel_subscription", "shopify_get_related_knowledge_source"}

\* email_session.py:143-164, the tool names offered to each agent
ROUTER_TOOLS ==
    {"shopify_get_order_details", "shopify_get_customer_orders",
     "skio_get_subscription_status"}
POLICY_TOOLS == {"shopify_get_related_knowledge_source", "escalate"}
EXECUTOR_TOOLS == REGISTERED_TOOLS \cup {"escalate"}

\* names a model response may carry: offered ones and one it made up
RequestedNames ==
    {"escalate", "shopify_get_order_details", "shopify_refund_order",
     "shopify_get_related_knowledge_source", "lookup_weather"}

EscalateArgs ==
    PyDict(<< <<"reason", PyStr("Out of scope")>>,
              <<"summary_for_team", PyStr("Customer asks for a resend")>> >>)
OrderArgs == PyDict(<< <<"orderId", PyStr("#43189")>> >>)
RefundArgs ==
    PyDict(<< <<"orderId", PyStr("#43189")>>,
              <<"refundMethod", PyStr("STORE_CREDIT")>> >>)
KnowledgeArgs ==
    PyDict(<< <<"question", PyStr("resend policy")>>,
              <<"specificToProductId", PyNone>> >>)
EmptyArgs == PyDict(<<>>)
\* escalate arguments whose reason is an object, not a string
StructuredReasonArgs ==
    PyDict(<< <<"reason", PyDict(<< <<"code", PyStr("OUT_OF_SCOPE")>> >>)>>,
              <<"summary_for_team", PyStr("Customer asks for a resend")>> >>)

\* what the arguments text of a tool-call request decodes to
ArgValues ==
    {EscalateArgs, OrderArgs, RefundArgs, KnowledgeArgs, EmptyArgs, PyNone,
     PyStr("#43189"), StructuredReasonArgs}

\* an arguments text cut off before its end: no JSON document
TRUNCATED_JSON == "{\"orderId\": "

\* what a concrete tool's run gives back
ToolSuccess == PyDict(<< <<"success", PyBool(TRUE)>> >>)
ToolFailure ==
    PyDict(<< <<"success", PyBool(FALSE)>>,
              <<"error", PyStr("HTTP error when calling API")>> >>)
ToolMalformed == PyStr("upstream timeout")

ToolRunOutcomes ==
    {[kind |-> "return", value |-> ToolSuccess],
     [kind |-> "return", value |-> ToolFailure],
     [kind |-> "return", value |-> ToolMalformed],
     [kind |-> "raise", value |-> PyStr("connection reset")]}

\* str(e) of the TypeError a run called with the wrong keywords raises
ARGUMENT_ERROR == "run() got unexpected or missing keyword arguments"

ErrorPayload(msg) ==
    PyDict(<< <<"success", PyBool(FALSE)>>, <<"error", PyStr(msg)>> >>)

\* email_session.py:261-265
ESCALATE_RESULT ==
    PyDict(<< <<"success", PyBool(TRUE)>>, <<"escalated", PyBool(TRUE)>>,
              <<"message", PyStr("Session escalated. No further automatic replies.")>> >>)

\* every value whose text the program may have to read back
JsonUniverse ==
    ArgValues
    \cup {ToolSuccess, ToolFailure, ESCALATE_RESULT}
    \cup {ErrorPayload("connection reset"), ErrorPayload(ARGUMENT_ERROR)}
    \cup {ErrorPayload("Unknown tool: " \o n) : n \in RequestedNames}
    \cup {PyDict(<< <<"raw", PyStr(ToolMalformed.v)>> >>)}

\* the JSON documents of the model: <<text, value>>
JsonDocuments == {<<json_dumps(x), x>> : x \in JsonUniverse}

\* json.loads: the value whose text this is, or a JSONDecodeError
json_loads(text) ==
    IF \E doc \in JsonDocuments : doc[1] = text
    THEN [ok |-> TRUE,
          value |-> (CHOOSE doc \in JsonDocuments : doc[1] = text)[2]]
    ELSE [ok |-> FALSE, value |-> PyNone]

\* str(x)
py_str(x) == IF x.t = "str" THEN x.v ELSE json_dumps(x)

(***************************************************************************)
(* db.py: the tables, each a sequence of rows in id order.                 *)
(***************************************************************************)
\* db.py:116-133
create_session(sessions_tbl, customer) ==
    Append(sessions_tbl,
           [id |-> Len(sessions_tbl) + 1, customer |-> customer,
            escalated |-> FALSE])

\* db.py:136-143
get_session(sessions_tbl, session_id) ==
    IF session_id \in DOMAIN sessions_tbl
    THEN [found |-> TRUE, row |-> sessions_tbl[session_id]]
    ELSE [found |-> FALSE, row |-> <<>>]

\* the flag is never read: every session counts as not escalated
is_session_escalated_never(sessions_tbl, session_id) == FALSE

\* db.py:146-152
is_session_escalated(sessions_tbl, session_id) ==
    /\ session_id \in DOMAIN sessions_tbl
    /\ sessions_tbl[session_id].escalated

\* the UPDATE flips the flag instead of setting it
mark_session_escalated_flip(sessions_tbl, session_id) ==
    [i \in DOMAIN sessions_tbl |->
        IF i = session_id
        THEN [sessions_tbl[i] EXCEPT !.escalated = ~@]
        ELSE sessions_tbl[i]]

\* the UPDATE has no WHERE clause: every session is flagged
mark_session_escalated_everywhere(sessions_tbl, session_id) ==
    [i \in DOMAIN sessions_tbl |-> [sessions_tbl[i] EXCEPT !.escalated = TRUE]]

\* db.py:155-163
mark_session_escalated(sessions_tbl, session_id) ==
    [i \in DOMAIN sessions_tbl |->
        IF i = session_id
        THEN [sessions_tbl[i] EXCEPT !.escalated = TRUE]
        ELSE sessions_tbl[i]]

\* role and sender are bound to each other's column
add_message_swapped(messages_tbl, session_id, role, content, sender) ==
    Append(messages_tbl,
           [id |-> Len(messages_tbl) + 1, session_id |-> session_id,
            role |-> sender, content |-> content, sender |-> role])

\* the content column is left at its empty default
add_message_blank(messages_tbl, session_id, role, content, sender) ==
    Append(messages_tbl,
           [id |-> Len(messages_tbl) + 1, session_id |-> session_id,
            role |-> role, content |-> "", sender |-> sender])

\* db.py:166-182
add_message(messages_tbl, session_id, role, content, sender) ==
    Append(messages_tbl,
           [id |-> Len(messages_tbl) + 1, session_id |-> session_id,
            role |-> role, content |-> content,
            sender |-> IF sender = "" THEN role ELSE sender])

\* db.py:185-195
get_session_messages(messages_tbl, session_id) ==
    SelectSeq(messages_tbl, LAMBDA r : r.session_id = session_id)

\* the INSERT is never committed
add_tool_call_dropped(tool_calls_tbl, session_id, tool_name, tool_input, tool_output) ==
    tool_calls_tbl

\* db.py:198-216
add_tool_call(tool_calls_tbl, session_id, tool_name, tool_input, tool_output) ==
    Append(tool_calls_tbl,
           [id |-> Len(tool_calls_tbl) + 1, session_id |-> session_id,
            tool_name |-> tool_name,
            tool_input |-> json_dumps(tool_input),
            tool_output |-> json_dumps(tool_output)])

\* the rows are read newest first
get_session_tool_calls_newest_first(tool_calls_tbl, session_id) ==
    LET rows == SelectSeq(tool_calls_tbl, LAMBDA r : r.session_id = session_id)
        Load(text) == IF json_loads(text).ok THEN json_loads(text).value
                      ELSE PyStr(text)
    IN [i \in DOMAIN rows |->
          [id |-> rows[Len(rows) + 1 - i].id,
           tool_name |-> rows[Len(rows) + 1 - i].tool_name,
           tool_input |-> Load(rows[Len(rows) + 1 - i].tool_input),
           tool_output |-> Load(rows[Len(rows) + 1 - i].tool_output)]]

\* db.py:219-240
get_session_tool_calls(tool_calls_tbl, session_id) ==
    LET rows == SelectSeq(tool_calls_tbl, LAMBDA r : r.session_id = session_id)
        Load(text) == IF json_loads(text).ok THEN json_loads(text).value
                      ELSE PyStr(text)
    IN [i \in DOMAIN rows |->
          [id |-> rows[i].id, tool_name |-> rows[i].tool_name,
           tool_input |-> Load(rows[i].tool_input),
           tool_output |-> Load(rows[i].tool_output)]]

\* db.py:251-254: sqlite3 binds a string, a number or None as a parameter
\* and raises on a dict
sqlite_binds(x) == ~IsDict(x)

\* db.py:243-258
add_escalation(escalations_tbl, session_id, summary_json, reason) ==
    Append(escalations_tbl,
           [id |-> Len(escalations_tbl) + 1, session_id |-> session_id,
            summary_json |-> json_dumps(summary_json), reason |-> reason])

(***************************************************************************)
(* agents.py: messages, LLMAgent.act.                                      *)
(***************************************************************************)
\* agents.py:9-13
Message(role, content, sender) ==
    [role |-> role, content |-> content, sender |-> sender]

\* email_session.py:373, the agents of the pipeline in order
AGENTS == <<"RouterAgent", "PolicyAgent", "ExecutorAgent">>

\* every agent is given the Executor's list
tool_definitions_shared(name) == EXECUTOR_TOOLS

\* email_session.py:333-371, the tool names offered to the agent
tool_definitions(name) ==
    CASE name = "RouterAgent" -> ROUTER_TOOLS
      [] name = "PolicyAgent" -> POLICY_TOOLS
      [] name = "ExecutorAgent" -> EXECUTOR_TOOLS

\* email_session.py:328-371, the agent's own system prompt
system_prompt(name, customer) ==
    "You are the " \o name \o ". Customer: " \o customer.first_name \o " "
    \o customer.last_name \o " <" \o customer.email \o ">, Shopify customer ID: "
    \o customer.shopify_customer_id \o "."

\* the system messages of the history are passed on as they are
RenderHistory_keeps_system(messages, i) ==
    [k \in 1..(Len(messages) - i + 1) |->
        LET m == messages[k + i - 1]
        IN [role |-> IF m.role = "system" THEN "system" ELSE "user",
            content |-> IF m.role = "agent"
                        THEN "[" \o m.sender \o "]: " \o m.content
                        ELSE m.content]]

\* agents.py:42-51
RECURSIVE RenderHistory(_, _)
RenderHistory(messages, i) ==
    IF i > Len(messages) THEN <<>>
    ELSE LET m == messages[i]
             rest == RenderHistory(messages, i + 1)
         IN CASE m.role = "system" -> rest
              [] m.role = "user" ->
                   <<[role |-> "user", content |-> m.content]>> \o rest
              [] m.role = "agent" ->
                   <<[role |-> "user",
                      content |-> "[" \o m.sender \o "]: " \o m.content]>> \o rest
              [] OTHER -> rest

\* the agent is shown the seed only, not what the agents before it said
openai_messages_seed_only(prompt, messages) ==
    <<[role |-> "system", content |-> prompt]>>
    \o RenderHistory(SelectSeq(messages, LAMBDA m : m.sender \notin
                                   {AGENTS[k] : k \in DOMAIN AGENTS}), 1)

\* agents.py:41-51
openai_messages(prompt, messages) ==
    <<[role |-> "system", content |-> prompt]>> \o RenderHistory(messages, 1)

\* every record is filed under the last agent of the list
TagToolCalls_last_agent(calls, name) ==
    [i \in DOMAIN calls |->
        [name |-> calls[i].name, arguments |-> calls[i].arguments,
         result |-> calls[i].result, agent |-> AGENTS[Len(AGENTS)]]]

\* agents.py:65-69
TagToolCalls(calls, name) ==
    [i \in DOMAIN calls |->
        [name |-> calls[i].name, arguments |-> calls[i].arguments,
         result |-> calls[i].result, agent |-> name]]

\* act returns None whenever the gateway gave no text
act_response_text_only(name, result) ==
    IF result.content = ""
    THEN [silent |-> TRUE, message |-> Message("agent", "", name)]
    ELSE [silent |-> FALSE,
          message |-> [role |-> "agent", content |-> result.content,
                       sender |-> name, tool_calls |-> result.tool_calls]]

\* agents.py:71-79, the message act returns; silent is act returning None
act_response(name, result) ==
    IF result.content = "" /\ result.tool_calls = <<>>
    THEN [silent |-> TRUE, message |-> Message("agent", "", name)]
    ELSE [silent |-> FALSE,
          message |-> [role |-> "agent",
                       content |-> IF result.content # "" THEN result.content
                                   ELSE NO_TEXT_OUTPUT,
                       sender |-> name,
                       tool_calls |-> result.tool_calls]]

\* agents.py:110-130
seed_messages(user_message, initial_messages) ==
    <<Message("system", MAS_SYSTEM_PROMPT, "system")>>
    \o initial_messages
    \o <<Message("user", user_message, "user")>>

(***************************************************************************)
(* email_session.py: the pure parts of EmailSession.reply.                 *)
(***************************************************************************)
\* every row is a prior turn, the one just added too
PriorTurns_with_inbound(rows, i) ==
    [k \in 1..(Len(rows) - i + 1) |->
        IF rows[k + i - 1].role = "user"
        THEN [role |-> "user", content |-> rows[k + i - 1].content,
              sender |-> "customer"]
        ELSE [role |-> "agent", content |-> rows[k + i - 1].content,
              sender |-> "agent"]]

\* email_session.py:375-383
RECURSIVE PriorTurns(_, _)
PriorTurns(rows, i) ==
    IF i > Len(rows) - 1 THEN <<>>
    ELSE LET r == rows[i]
             rest == PriorTurns(rows, i + 1)
         IN CASE r.role = "user" ->
                   <<Message("user", r.content, "customer")>> \o rest
              [] r.role = "assistant" ->
                   <<Message("agent", r.content, "agent")>> \o rest
              [] OTHER -> rest

\* email_session.py:409-414, the scan of the round in reverse
RECURSIVE ScanReversed(_, _, _)
ScanReversed(hist, i, content) ==
    IF i = 0 THEN content
    ELSE LET m == hist[i]
         IN IF m.sender = "ExecutorAgent" /\ m.content # ""
            THEN IF m.content # NO_TEXT_OUTPUT THEN m.content
                 ELSE ScanReversed(hist, i - 1, m.content)
            ELSE ScanReversed(hist, i - 1, content)

\* the fallback is the apology whenever the Executor gave no text
customer_reply_apology(hist) ==
    LET content == ScanReversed(hist, Len(hist), "")
    IN IF content = "" THEN APOLOGY ELSE content

\* email_session.py:409-416
customer_reply(hist) ==
    LET content == ScanReversed(hist, Len(hist), "")
    IN IF content = ""
       THEN IF hist # <<>> THEN hist[Len(hist)].content ELSE APOLOGY
       ELSE content

\* email_session.py:399-402
RECURSIVE EscalateActions(_, _)
EscalateActions(calls, i) ==
    IF i > Len(calls) THEN <<>>
    ELSE IF calls[i].name = "escalate"
         THEN <<"escalate: "
                \o DictGet(calls[i].arguments, "reason", PyStr("")).v>>
              \o EscalateActions(calls, i + 1)
         ELSE EscalateActions(calls, i + 1)

\* the escalate calls of the run are not listed
escalated_actions_bare(calls) == <<"escalated_to_human">>

escalated_actions(calls) == <<"escalated_to_human">> \o EscalateActions(calls, 1)

RECURSIVE actions_taken_reversed(_, _)
\* each entry is put in front of the list instead of appended to it
actions_taken_reversed(calls, i) ==
    IF i > Len(calls) THEN <<>>
    ELSE IF calls[i].name # "" /\ calls[i].name # "escalate"
         THEN actions_taken_reversed(calls, i + 1)
              \o <<calls[i].agent \o "/" \o calls[i].name \o "("
                    \o json_dumps(calls[i].arguments) \o ")">>
         ELSE actions_taken_reversed(calls, i + 1)

\* email_session.py:420-424
RECURSIVE actions_taken(_, _)
actions_taken(calls, i) ==
    IF i > Len(calls) THEN <<>>
    ELSE IF calls[i].name # "" /\ calls[i].name # "escalate"
         THEN <<calls[i].agent \o "/" \o calls[i].name \o "("
                \o json_dumps(calls[i].arguments) \o ")">>
              \o actions_taken(calls, i + 1)
         ELSE actions_taken(calls, i + 1)

\* email_session.py:166-172, and None for a reply that returns no trace
SessionTrace(final_message, calls, actions) ==
    [kind |-> "SessionTrace", final_message |-> final_message,
     tool_calls |-> calls, actions_taken |-> actions]
NoTrace == [kind |-> "None"]
NotReturned == [kind |-> "running"]

(***************************************************************************)
(* email_session.py: EmailSession._tool_executor.                          *)
(***************************************************************************)
\* tools.py, the keyword parameters of each registered tool's run
RunParameters(tool_name) ==
    CASE tool_name = "shopify_get_order_details" -> {"orderId"}
      [] tool_name = "shopify_get_customer_orders" -> {"email", "after", "limit"}
      [] tool_name = "shopify_refund_order" -> {"orderId", "refundMethod"}
      [] tool_name = "shopify_create_store_credit" ->
           {"id", "creditAmount", "expiresAt"}
      [] tool_name = "skio_get_subscription_status" -> {"email"}
      [] tool_name = "skio_pause_subscription" -> {"subscriptionId", "pausedUntil"}
      [] tool_name = "skio_cancel_subscription" ->
           {"subscriptionId", "cancellationReasons"}
      [] tool_name = "shopify_get_related_knowledge_source" ->
           {"question", "specificToProductId"}
      [] OTHER -> {}

Keys(d) == {d.v[i][1] : i \in DOMAIN d.v}

\* email_session.py:272-275
tool_kwargs(tool_name, arguments) ==
    IF /\ tool_name = "shopify_get_customer_orders"
       /\ DictGet(arguments, "after", PyNone) \in {PyNone, PyStr("null")}
    THEN IF HasKey(arguments, "after")
         THEN PyDict([i \in DOMAIN arguments.v |->
                        IF arguments.v[i][1] = "after"
                        THEN <<"after", PyStr("null")>>
                        ELSE arguments.v[i]])
         ELSE PyDict(Append(arguments.v, <<"after", PyStr("null")>>))
    ELSE arguments

\* the registry is indexed, not asked: a name it does not hold is a KeyError
run_tool_unguarded(tool_name, arguments, outcome) ==
    IF tool_name \notin REGISTERED_TOOLS \/ ~IsDict(arguments)
    THEN [raised |-> TRUE, ran |-> FALSE, out |-> ""]
    ELSE [raised |-> FALSE, ran |-> TRUE,
          out |-> IF outcome.kind = "raise"
                  THEN json_dumps(ErrorPayload(py_str(outcome.value)))
                  ELSE IF IsDict(outcome.value) THEN json_dumps(outcome.value)
                  ELSE py_str(outcome.value)]

\* the try around the tool's run is gone: its exception leaves the executor
run_tool_propagates(tool_name, arguments, outcome) ==
    IF tool_name \notin REGISTERED_TOOLS
    THEN [raised |-> FALSE, ran |-> FALSE,
          out |-> json_dumps(ErrorPayload("Unknown tool: " \o tool_name))]
    ELSE IF ~IsDict(arguments) \/ outcome.kind = "raise"
    THEN [raised |-> TRUE, ran |-> FALSE, out |-> ""]
    ELSE [raised |-> FALSE, ran |-> TRUE,
          out |-> IF IsDict(outcome.value) THEN json_dumps(outcome.value)
                  ELSE py_str(outcome.value)]

\* email_session.py:267-280, the dispatch to a registered tool; outcome is
\* what the tool's run does when it is called
run_tool(tool_name, arguments, outcome) ==
    IF tool_name \notin REGISTERED_TOOLS
    THEN [raised |-> FALSE, ran |-> FALSE,
          out |-> json_dumps(ErrorPayload("Unknown tool: " \o tool_name))]
    ELSE IF ~IsDict(arguments)
    THEN [raised |-> TRUE, ran |-> FALSE, out |-> ""]
    ELSE LET kwargs == tool_kwargs(tool_name, arguments)
             fits == Keys(kwargs) = RunParameters(tool_name)
             result == IF ~fits THEN ErrorPayload(ARGUMENT_ERROR)
                       ELSE IF outcome.kind = "raise"
                            THEN ErrorPayload(py_str(outcome.value))
                            ELSE outcome.value
         IN [raised |-> FALSE, ran |-> fits,
             out |-> IF IsDict(result) THEN json_dumps(result)
                     ELSE py_str(result)]

\* the summary says nothing of the customer
escalation_summary_anonymous(customer, reason, summary) ==
    PyDict(<< <<"reason", reason>>, <<"summary_for_team", summary>> >>)

\* email_session.py:253-258
escalation_summary(customer, reason, summary) ==
    PyDict(<< <<"reason", reason>>,
              <<"summary_for_team", summary>>,
              <<"customer_email", PyStr(customer.email)>>,
              <<"customer_name",
                PyStr(customer.first_name \o " " \o customer.last_name)>> >>)

\* email_session.py:321-324
parse_output(out) ==
    IF json_loads(out).ok THEN json_loads(out).value
    ELSE PyDict(<< <<"raw", PyStr(out)>> >>)

\* a text that is no JSON document decodes to None
decode_arguments_strict(text) ==
    IF text = "" THEN EmptyArgs
    ELSE json_loads(text).value

\* call_gpt.py:178-181
decode_arguments(text) ==
    IF text = "" THEN EmptyArgs
    ELSE IF json_loads(text).ok THEN json_loads(text).value
    ELSE EmptyArgs

(***************************************************************************)
(* State.                                                                  *)
(***************************************************************************)
VARIABLES
    \* db.py, the tables
    email_sessions, session_messages, tool_calls, escalations,
    \* one reply call in flight per run: where it is, and its locals
    pc, session_id, customer_message, tool_call_collector,
    \* MultiAgentSystem.run
    history, max_turns, turn, agent_idx, any_response,
    \* call_gpt_with_tools
    current_messages, all_tool_calls, round, pending, call, gateway_result,
    \* what reply returned
    trace,
    \* what the last load or get_trace call returned, until the caller has it
    observed

db_vars == <<email_sessions, session_messages, tool_calls, escalations>>
reply_vars == <<session_id, customer_message, tool_call_collector, trace>>
mas_vars == <<history, max_turns, turn, agent_idx, any_response>>
gateway_vars ==
    <<current_messages, all_tool_calls, round, pending, call, gateway_result>>
vars == <<db_vars, pc, reply_vars, mas_vars, gateway_vars, observed>>

\* the callers that may have a reply in flight
Runs == {1, 2}

\* the customers sessions are started for, in the order they write in
Customers ==
    <<[email |-> "alice@example.com", first_name |-> "Alice",
       last_name |-> "Smith", shopify_customer_id |-> "gid://shopify/Customer/123"],
      [email |-> "test@example.com", first_name |-> "Test",
       last_name |-> "User", shopify_customer_id |-> "gid://shopify/Customer/456"]>>

NextCustomer == Customers[Len(email_sessions) + 1]

\* the texts a customer sends
CustomerMessages == {"", "Where is my order?"}

\* the texts a model response carries: nothing, or what the agent's prompt
\* asks it for
ModelTexts(name) ==
    {"",
     CASE name = "RouterAgent" -> "SHIPPING_DELAY"
       [] name = "PolicyAgent" -> "PROCEED"
       [] OTHER -> "Your order #43189 is in transit."}

NoCall == [name |-> "", arguments |-> PyNone, out |-> ""]
NoResult == [content |-> "", tool_calls |-> <<>>, error |-> ""]
NothingObserved == [call |-> "none"]

Init ==
    /\ email_sessions = <<>>
    /\ session_messages = <<>>
    /\ tool_calls = <<>>
    /\ escalations = <<>>
    /\ pc = [r \in Runs |-> "idle"]
    /\ session_id = [r \in Runs |-> 0]
    /\ customer_message = [r \in Runs |-> ""]
    /\ tool_call_collector = [r \in Runs |-> <<>>]
    /\ trace = [r \in Runs |-> NotReturned]
    /\ history = [r \in Runs |-> <<>>]
    /\ max_turns = [r \in Runs |-> 0]
    /\ turn = [r \in Runs |-> 0]
    /\ agent_idx = [r \in Runs |-> 1]
    /\ any_response = [r \in Runs |-> FALSE]
    /\ current_messages = [r \in Runs |-> <<>>]
    /\ all_tool_calls = [r \in Runs |-> <<>>]
    /\ round = [r \in Runs |-> 0]
    /\ pending = [r \in Runs |-> <<>>]
    /\ call = [r \in Runs |-> NoCall]
    /\ gateway_result = [r \in Runs |-> NoResult]
    /\ observed = NothingObserved

(***************************************************************************)
(* EmailSession.start                                                      *)
(***************************************************************************)
\* email_session.py:192-214
StartSession(customer) ==
    /\ UNCHANGED observed
    /\ Len(email_sessions) < Len(Customers)
    /\ email_sessions' = create_session(email_sessions, customer)
    /\ UNCHANGED <<session_messages, tool_calls, escalations>>
    /\ UNCHANGED <<pc, reply_vars, mas_vars, gateway_vars>>

(***************************************************************************)
(* EmailSession.load and EmailSession.get_trace                            *)
(***************************************************************************)
\* email_session.py:216-228, the object load returns, or None
load(sessions_tbl, sid) ==
    LET got == get_session(sessions_tbl, sid)
    IN IF ~got.found THEN [call |-> "load", found |-> FALSE]
       ELSE [call |-> "load", found |-> TRUE,
             session_id |-> got.row.id,
             customer_email |-> got.row.customer.email,
             first_name |-> got.row.customer.first_name,
             last_name |-> got.row.customer.last_name,
             shopify_customer_id |-> got.row.customer.shopify_customer_id]

\* email_session.py:432-446, the dict get_trace returns
get_trace(sessions_tbl, messages_tbl, tool_calls_tbl, sid) ==
    LET got == get_session(sessions_tbl, sid)
        rows == get_session_messages(messages_tbl, sid)
    IN IF ~got.found THEN [call |-> "get_trace", found |-> FALSE]
       ELSE [call |-> "get_trace", found |-> TRUE,
             session_id |-> sid,
             customer_email |-> got.row.customer.email,
             escalated |-> got.row.escalated,
             messages |-> [i \in DOMAIN rows |->
                            [role |-> rows[i].role, content |-> rows[i].content,
                             sender |-> rows[i].sender]],
             tool_calls |-> get_session_tool_calls(tool_calls_tbl, sid)]

\* email_session.py:216-228
LoadSession(sid) ==
    /\ observed = NothingObserved
    /\ observed' = load(email_sessions, sid)
    /\ UNCHANGED <<db_vars, pc, reply_vars, mas_vars, gateway_vars>>

\* the read is itself written to the tool-call log
GetTrace_logged(sid) ==
    /\ observed = NothingObserved
    /\ sid \in DOMAIN email_sessions
    /\ observed' = get_trace(email_sessions, session_messages, tool_calls, sid)
    /\ tool_calls' = add_tool_call(tool_calls, sid, "get_trace", EmptyArgs, ToolSuccess)
    /\ UNCHANGED <<email_sessions, session_messages, escalations>>
    /\ UNCHANGED <<pc, reply_vars, mas_vars, gateway_vars>>

\* email_session.py:432-446
GetTrace(sid) ==
    /\ observed = NothingObserved
    /\ sid \in DOMAIN email_sessions
    /\ observed' = get_trace(email_sessions, session_messages, tool_calls, sid)
    /\ UNCHANGED <<db_vars, pc, reply_vars, mas_vars, gateway_vars>>

\* the caller has what load or get_trace returned
Observe ==
    /\ observed # NothingObserved
    /\ observed' = NothingObserved
    /\ UNCHANGED <<db_vars, pc, reply_vars, mas_vars, gateway_vars>>

(***************************************************************************)
(* EmailSession.reply                                                      *)
(***************************************************************************)
\* the customer messages taken in so far, over all sessions
RepliesTaken ==
    Cardinality({i \in DOMAIN session_messages :
                    session_messages[i].sender = "customer"})

\* email_session.py:307-313: the call and its escalation check
ReplyStart(r, sid, m) ==
    /\ UNCHANGED observed
    /\ pc[r] = "idle"
    /\ sid \in DOMAIN email_sessions
    /\ session_id' = [session_id EXCEPT ![r] = sid]
    /\ customer_message' = [customer_message EXCEPT ![r] = m]
    /\ IF is_session_escalated(email_sessions, sid)
       THEN /\ pc' = [pc EXCEPT ![r] = "returned"]
            /\ trace' = [trace EXCEPT ![r] = NoTrace]
       ELSE /\ pc' = [pc EXCEPT ![r] = "persist_user"]
            /\ trace' = [trace EXCEPT ![r] = NotReturned]
    /\ UNCHANGED <<db_vars, tool_call_collector, mas_vars, gateway_vars>>

\* a reply, while at most MaxReplies customer messages have been taken in
ReplyBegin(r, sid, m) ==
    /\ sid \in DOMAIN email_sessions
    /\ email_sessions[sid].escalated \/ RepliesTaken < MaxReplies
    /\ ReplyStart(r, sid, m)

\* email_session.py:315-317
ReplyPersistUser(r) ==
    /\ UNCHANGED observed
    /\ pc[r] = "persist_user"
    /\ session_messages' =
         add_message(session_messages, session_id[r], "user",
                     customer_message[r], "customer")
    /\ tool_call_collector' = [tool_call_collector EXCEPT ![r] = <<>>]
    /\ pc' = [pc EXCEPT ![r] = "load_history"]
    /\ UNCHANGED <<email_sessions, tool_calls, escalations>>
    /\ UNCHANGED <<session_id, customer_message, trace, mas_vars, gateway_vars>>

\* email_session.py:375-389 and agents.py:110-132: the prior turns are read
\* back and MultiAgentSystem.run seeds its messages
ReplyLoadHistory(r) ==
    /\ UNCHANGED observed
    /\ pc[r] = "load_history"
    /\ LET rows == get_session_messages(session_messages, session_id[r])
           initial == PriorTurns(rows, 1)
       IN history' = [history EXCEPT
                        ![r] = seed_messages(customer_message[r], initial)]
    /\ max_turns' = [max_turns EXCEPT ![r] = REPLY_MAX_TURNS]
    /\ turn' = [turn EXCEPT ![r] = 0]
    /\ agent_idx' = [agent_idx EXCEPT ![r] = 1]
    /\ any_response' = [any_response EXCEPT ![r] = FALSE]
    /\ pc' = [pc EXCEPT ![r] = IF REPLY_MAX_TURNS > 0 THEN "act"
                                ELSE "after_round"]
    /\ UNCHANGED <<db_vars, reply_vars, gateway_vars>>

(***************************************************************************)
(* LLMAgent.act and call_gpt_with_tools                                    *)
(***************************************************************************)
\* the customer of the session a run replies for
CustomerOf(r) == email_sessions[session_id[r]].customer

\* agents.py:40-60 and call_gpt.py:134-137: the agent renders the history
\* and enters the gateway loop
AgentAct(r) ==
    /\ UNCHANGED observed
    /\ pc[r] = "act"
    /\ current_messages' =
         [current_messages EXCEPT
            ![r] = openai_messages(
                     system_prompt(AGENTS[agent_idx[r]], CustomerOf(r)),
                     history[r])]
    /\ all_tool_calls' = [all_tool_calls EXCEPT ![r] = <<>>]
    /\ round' = [round EXCEPT ![r] = 0]
    /\ pending' = [pending EXCEPT ![r] = <<>>]
    /\ gateway_result' = [gateway_result EXCEPT ![r] = NoResult]
    /\ pc' = [pc EXCEPT ![r] = "gateway"]
    /\ UNCHANGED <<db_vars, reply_vars, mas_vars, call>>

\* the assistant messages the turn has added to the conversation
AssistantTexts(r) ==
    SelectSeq(current_messages[r], LAMBDA m : m.role = "assistant")

\* the text that came with a tool request is what the turn returns
GatewayRound_keeps_text(r, response) ==
    /\ UNCHANGED observed
    /\ pc[r] = "gateway"
    /\ round[r] < max_tool_rounds
    /\ IF response.kind = "raise"
       THEN /\ pc' = [pc EXCEPT ![r] = "raised"]
            /\ UNCHANGED gateway_vars
       ELSE IF response.tool_calls # <<>>
       THEN /\ current_messages' =
                 [current_messages EXCEPT
                    ![r] = Append(@, [role |-> "assistant",
                                      content |-> response.content,
                                      tool_calls |-> response.tool_calls])]
            /\ pending' = [pending EXCEPT ![r] = response.tool_calls]
            /\ round' = [round EXCEPT ![r] = @ + 1]
            /\ pc' = [pc EXCEPT ![r] = "tools"]
            /\ UNCHANGED <<all_tool_calls, call, gateway_result>>
       ELSE /\ gateway_result' =
                 [gateway_result EXCEPT
                    ![r] = [content |-> IF AssistantTexts(r) = <<>>
                                        THEN response.content
                                        ELSE Head(AssistantTexts(r)).content,
                            tool_calls |-> all_tool_calls[r],
                            error |-> ""]]
            /\ pc' = [pc EXCEPT ![r] = "settle"]
            /\ UNCHANGED <<current_messages, all_tool_calls, round, pending, call>>
    /\ UNCHANGED <<db_vars, reply_vars, mas_vars>>

\* call_gpt.py:139-173 and 195-201: one model invocation; response is what
\* the model answers, or that the call raises
GatewayRound(r, response) ==
    /\ UNCHANGED observed
    /\ pc[r] = "gateway"
    /\ round[r] < max_tool_rounds
    /\ IF response.kind = "raise"
       THEN /\ pc' = [pc EXCEPT ![r] = "raised"]
            /\ UNCHANGED gateway_vars
       ELSE IF response.tool_calls # <<>>
       THEN /\ current_messages' =
                 [current_messages EXCEPT
                    ![r] = Append(@, [role |-> "assistant",
                                      content |-> response.content,
                                      tool_calls |-> response.tool_calls])]
            /\ pending' = [pending EXCEPT ![r] = response.tool_calls]
            /\ round' = [round EXCEPT ![r] = @ + 1]
            /\ pc' = [pc EXCEPT ![r] = "tools"]
            /\ UNCHANGED <<all_tool_calls, call, gateway_result>>
       ELSE /\ gateway_result' =
                 [gateway_result EXCEPT
                    ![r] = [content |-> response.content,
                            tool_calls |-> all_tool_calls[r],
                            error |-> ""]]
            /\ pc' = [pc EXCEPT ![r] = "settle"]
            /\ UNCHANGED <<current_messages, all_tool_calls, round, pending, call>>
    /\ UNCHANGED <<db_vars, reply_vars, mas_vars>>

\* a model invocation, while the tool-call log stays within MaxToolCalls rows
GatewayInvoke(r, response) ==
    /\ Len(tool_calls) + Len(response.tool_calls) <= MaxToolCalls
    /\ GatewayRound(r, response)

\* running out of rounds is an exception
GatewayRoundLimit_raises(r) ==
    /\ pc[r] = "gateway"
    /\ round[r] >= max_tool_rounds
    /\ pc' = [pc EXCEPT ![r] = "raised"]
    /\ UNCHANGED <<db_vars, reply_vars, mas_vars, gateway_vars, observed>>

\* call_gpt.py:203-208: the rounds are used up
GatewayRoundLimit(r) ==
    /\ UNCHANGED observed
    /\ pc[r] = "gateway"
    /\ round[r] >= max_tool_rounds
    /\ gateway_result' =
         [gateway_result EXCEPT
            ![r] = [content |-> "",
                    tool_calls |-> all_tool_calls[r],
                    error |-> "Max tool rounds reached without final response."]]
    /\ pc' = [pc EXCEPT ![r] = "settle"]
    /\ UNCHANGED <<current_messages, all_tool_calls, round, pending, call>>
    /\ UNCHANGED <<db_vars, reply_vars, mas_vars>>

\* call_gpt.py:176-183 and email_session.py:247-250: the next requested
\* call is escalate; the session is marked escalated
ExecuteEscalate(r) ==
    /\ UNCHANGED observed
    /\ pc[r] = "tools"
    /\ pending[r] # <<>>
    /\ Head(pending[r]).name = "escalate"
    /\ LET args == decode_arguments(Head(pending[r]).arguments)
       IN IF ~IsDict(args)
          THEN /\ pc' = [pc EXCEPT ![r] = "raised"]
               /\ UNCHANGED <<email_sessions, call>>
          ELSE /\ email_sessions' =
                    mark_session_escalated(email_sessions, session_id[r])
               /\ call' = [call EXCEPT
                             ![r] = [name |-> "escalate", arguments |-> args,
                                     out |-> ""]]
               /\ pc' = [pc EXCEPT ![r] = "escalate_record"]
    /\ UNCHANGED <<session_messages, tool_calls, escalations>>
    /\ UNCHANGED <<reply_vars, mas_vars>>
    /\ UNCHANGED <<current_messages, all_tool_calls, round, pending, gateway_result>>

\* email_session.py:248-265: the escalation summary is persisted
RecordEscalation(r) ==
    /\ UNCHANGED observed
    /\ pc[r] = "escalate_record"
    /\ LET reason == DictGet(call[r].arguments, "reason", PyStr("Not specified"))
           summary == DictGet(call[r].arguments, "summary_for_team", PyStr(""))
       IN IF ~sqlite_binds(reason)
          THEN /\ pc' = [pc EXCEPT ![r] = "raised"]
               /\ UNCHANGED <<escalations, call>>
          ELSE /\ escalations' =
                    add_escalation(escalations, session_id[r],
                                   escalation_summary(CustomerOf(r), reason, summary),
                                   py_str(reason))
               /\ call' = [call EXCEPT ![r].out = json_dumps(ESCALATE_RESULT)]
               /\ pc' = [pc EXCEPT ![r] = "log_call"]
    /\ UNCHANGED <<email_sessions, session_messages, tool_calls>>
    /\ UNCHANGED <<reply_vars, mas_vars>>
    /\ UNCHANGED <<current_messages, all_tool_calls, round, pending, gateway_result>>

\* call_gpt.py:176-183 and email_session.py:267-280: the next requested call
\* is dispatched to the registry; outcome is what the tool's run does
ExecuteTool(r, outcome) ==
    /\ UNCHANGED observed
    /\ pc[r] = "tools"
    /\ pending[r] # <<>>
    /\ Head(pending[r]).name # "escalate"
    /\ LET name == Head(pending[r]).name
           args == decode_arguments(Head(pending[r]).arguments)
           done == run_tool(name, args, outcome)
       IN IF done.raised
          THEN /\ pc' = [pc EXCEPT ![r] = "raised"]
               /\ UNCHANGED call
          ELSE /\ call' = [call EXCEPT
                             ![r] = [name |-> name, arguments |-> args,
                                     out |-> done.out]]
               /\ pc' = [pc EXCEPT ![r] = "log_call"]
    /\ UNCHANGED <<db_vars, reply_vars, mas_vars>>
    /\ UNCHANGED <<current_messages, all_tool_calls, round, pending, gateway_result>>

\* email_session.py:319-326: the executor logs the call before returning
LogToolCall(r) ==
    /\ UNCHANGED observed
    /\ pc[r] = "log_call"
    /\ tool_calls' =
         add_tool_call(tool_calls, session_id[r], call[r].name,
                       call[r].arguments, parse_output(call[r].out))
    /\ pc' = [pc EXCEPT ![r] = "record_call"]
    /\ UNCHANGED <<email_sessions, session_messages, escalations>>
    /\ UNCHANGED <<reply_vars, mas_vars, gateway_vars>>

\* the newest record goes to the front of the list
GatewayRecord_unordered(r) ==
    /\ UNCHANGED observed
    /\ pc[r] = "record_call"
    /\ all_tool_calls' =
         [all_tool_calls EXCEPT
            ![r] = <<[name |-> call[r].name,
                      arguments |-> call[r].arguments,
                      result |-> call[r].out]>> \o @]
    /\ current_messages' =
         [current_messages EXCEPT
            ![r] = Append(@, [role |-> "tool",
                              tool_call_id |-> Head(pending[r]).id,
                              content |-> call[r].out])]
    /\ pending' = [pending EXCEPT ![r] = Tail(@)]
    /\ call' = [call EXCEPT ![r] = NoCall]
    /\ pc' = [pc EXCEPT ![r] = IF Tail(pending[r]) = <<>> THEN "gateway"
                                ELSE "tools"]
    /\ UNCHANGED <<round, gateway_result>>
    /\ UNCHANGED <<db_vars, reply_vars, mas_vars>>

\* the gateway loop works on the shared list: the tool message lands in it
GatewayRecord_shared(r) ==
    /\ UNCHANGED observed
    /\ pc[r] = "record_call"
    /\ all_tool_calls' =
         [all_tool_calls EXCEPT
            ![r] = Append(@, [name |-> call[r].name,
                              arguments |-> call[r].arguments,
                              result |-> call[r].out])]
    /\ current_messages' =
         [current_messages EXCEPT
            ![r] = Append(@, [role |-> "tool",
                              tool_call_id |-> Head(pending[r]).id,
                              content |-> call[r].out])]
    /\ pending' = [pending EXCEPT ![r] = Tail(@)]
    /\ call' = [call EXCEPT ![r] = NoCall]
    /\ pc' = [pc EXCEPT ![r] = IF Tail(pending[r]) = <<>> THEN "gateway"
                                ELSE "tools"]
    /\ UNCHANGED <<round, gateway_result>>
    /\ history' = [history EXCEPT
                     ![r] = Append(@, [role |-> "tool", content |-> call[r].out,
                                       sender |-> "tool"])]
    /\ UNCHANGED <<db_vars, reply_vars, max_turns, turn, agent_idx, any_response>>

\* call_gpt.py:183-194: the gateway records the result and goes on
GatewayRecord(r) ==
    /\ UNCHANGED observed
    /\ pc[r] = "record_call"
    /\ all_tool_calls' =
         [all_tool_calls EXCEPT
            ![r] = Append(@, [name |-> call[r].name,
                              arguments |-> call[r].arguments,
                              result |-> call[r].out])]
    /\ current_messages' =
         [current_messages EXCEPT
            ![r] = Append(@, [role |-> "tool",
                              tool_call_id |-> Head(pending[r]).id,
                              content |-> call[r].out])]
    /\ pending' = [pending EXCEPT ![r] = Tail(@)]
    /\ call' = [call EXCEPT ![r] = NoCall]
    /\ pc' = [pc EXCEPT ![r] = IF Tail(pending[r]) = <<>> THEN "gateway"
                                ELSE "tools"]
    /\ UNCHANGED <<round, gateway_result>>
    /\ UNCHANGED <<db_vars, reply_vars, mas_vars>>

\* a round in which no agent responded is followed by another all the same
AgentSettle_ignores_silence(r) ==
    /\ UNCHANGED observed
    /\ pc[r] = "settle"
    /\ LET name == AGENTS[agent_idx[r]]
           response == act_response(name, gateway_result[r])
           responded == any_response[r] \/ ~response.silent
           last == agent_idx[r] = Len(AGENTS)
       IN /\ tool_call_collector' =
               [tool_call_collector EXCEPT
                  ![r] = @ \o TagToolCalls(gateway_result[r].tool_calls, name)]
          /\ history' = [history EXCEPT
                           ![r] = IF response.silent THEN @
                                  ELSE Append(@, response.message)]
          /\ IF ~last
             THEN /\ agent_idx' = [agent_idx EXCEPT ![r] = @ + 1]
                  /\ any_response' = [any_response EXCEPT ![r] = responded]
                  /\ turn' = turn
                  /\ pc' = [pc EXCEPT ![r] = "act"]
             ELSE /\ agent_idx' = [agent_idx EXCEPT ![r] = 1]
                  /\ any_response' = [any_response EXCEPT ![r] = FALSE]
                  /\ turn' = [turn EXCEPT ![r] = @ + 1]
                  /\ pc' = [pc EXCEPT
                              ![r] = IF turn[r] + 1 < max_turns[r]
                                     THEN "act" ELSE "after_round"]
    /\ UNCHANGED <<db_vars, session_id, customer_message, trace, max_turns>>
    /\ UNCHANGED gateway_vars

\* agents.py:62-79 and 132-144: act returns and the coordinator appends the
\* response, goes to the next agent, the next round or the end of the run
AgentSettle(r) ==
    /\ UNCHANGED observed
    /\ pc[r] = "settle"
    /\ LET name == AGENTS[agent_idx[r]]
           response == act_response(name, gateway_result[r])
           responded == any_response[r] \/ ~response.silent
           last == agent_idx[r] = Len(AGENTS)
       IN /\ tool_call_collector' =
               [tool_call_collector EXCEPT
                  ![r] = @ \o TagToolCalls(gateway_result[r].tool_calls, name)]
          /\ history' = [history EXCEPT
                           ![r] = IF response.silent THEN @
                                  ELSE Append(@, response.message)]
          /\ IF ~last
             THEN /\ agent_idx' = [agent_idx EXCEPT ![r] = @ + 1]
                  /\ any_response' = [any_response EXCEPT ![r] = responded]
                  /\ turn' = turn
                  /\ pc' = [pc EXCEPT ![r] = "act"]
             ELSE /\ agent_idx' = [agent_idx EXCEPT ![r] = 1]
                  /\ any_response' = [any_response EXCEPT ![r] = FALSE]
                  /\ turn' = [turn EXCEPT ![r] = @ + 1]
                  /\ pc' = [pc EXCEPT
                              ![r] = IF responded /\ turn[r] + 1 < max_turns[r]
                                     THEN "act" ELSE "after_round"]
    /\ UNCHANGED <<db_vars, session_id, customer_message, trace, max_turns>>
    /\ UNCHANGED gateway_vars

(***************************************************************************)
(* EmailSession.reply, after the round                                     *)
(***************************************************************************)
\* email_session.py:391-393: the escalation state is read again
ReplyAfterRound(r) ==
    /\ UNCHANGED observed
    /\ pc[r] = "after_round"
    /\ pc' = [pc EXCEPT
                ![r] = IF is_session_escalated(email_sessions, session_id[r])
                       THEN "persist_ack" ELSE "persist_reply"]
    /\ UNCHANGED <<db_vars, reply_vars, mas_vars, gateway_vars>>

\* email_session.py:394-407
ReplyEscalated(r) ==
    /\ UNCHANGED observed
    /\ pc[r] = "persist_ack"
    /\ session_messages' =
         add_message(session_messages, session_id[r], "assistant",
                     ESCALATION_ACK, "agent")
    /\ trace' = [trace EXCEPT
                   ![r] = SessionTrace(ESCALATION_ACK, tool_call_collector[r],
                                       escalated_actions(tool_call_collector[r]))]
    /\ pc' = [pc EXCEPT ![r] = "returned"]
    /\ UNCHANGED <<email_sessions, tool_calls, escalations>>
    /\ UNCHANGED <<session_id, customer_message, tool_call_collector>>
    /\ UNCHANGED <<mas_vars, gateway_vars>>

\* a reply that falls back, the Executor having no text, is not persisted
ReplyAnswered_unlogged_fallback(r) ==
    /\ UNCHANGED observed
    /\ pc[r] = "persist_reply"
    /\ LET content == customer_reply(history[r])
       IN /\ session_messages' =
               IF ScanReversed(history[r], Len(history[r]), "") = ""
               THEN session_messages
               ELSE add_message(session_messages, session_id[r], "assistant",
                                content, "agent")
          /\ trace' = [trace EXCEPT
                         ![r] = SessionTrace(content, tool_call_collector[r],
                                             actions_taken(tool_call_collector[r], 1))]
    /\ pc' = [pc EXCEPT ![r] = "returned"]
    /\ UNCHANGED <<email_sessions, tool_calls, escalations>>
    /\ UNCHANGED <<session_id, customer_message, tool_call_collector>>
    /\ UNCHANGED <<mas_vars, gateway_vars>>

\* email_session.py:409-430
ReplyAnswered(r) ==
    /\ UNCHANGED observed
    /\ pc[r] = "persist_reply"
    /\ LET content == customer_reply(history[r])
       IN /\ session_messages' =
               add_message(session_messages, session_id[r], "assistant",
                           content, "agent")
          /\ trace' = [trace EXCEPT
                         ![r] = SessionTrace(content, tool_call_collector[r],
                                             actions_taken(tool_call_collector[r], 1))]
    /\ pc' = [pc EXCEPT ![r] = "returned"]
    /\ UNCHANGED <<email_sessions, tool_calls, escalations>>
    /\ UNCHANGED <<session_id, customer_message, tool_call_collector>>
    /\ UNCHANGED <<mas_vars, gateway_vars>>

\* the caller has the result, or the exception, of the call; the call's
\* locals are gone
ReplyReturn(r) ==
    /\ UNCHANGED observed
    /\ pc[r] \in {"returned", "raised"}
    /\ pc' = [pc EXCEPT ![r] = "idle"]
    /\ session_id' = [session_id EXCEPT ![r] = 0]
    /\ customer_message' = [customer_message EXCEPT ![r] = ""]
    /\ tool_call_collector' = [tool_call_collector EXCEPT ![r] = <<>>]
    /\ trace' = [trace EXCEPT ![r] = NotReturned]
    /\ history' = [history EXCEPT ![r] = <<>>]
    /\ max_turns' = [max_turns EXCEPT ![r] = 0]
    /\ turn' = [turn EXCEPT ![r] = 0]
    /\ agent_idx' = [agent_idx EXCEPT ![r] = 1]
    /\ any_response' = [any_response EXCEPT ![r] = FALSE]
    /\ current_messages' = [current_messages EXCEPT ![r] = <<>>]
    /\ all_tool_calls' = [all_tool_calls EXCEPT ![r] = <<>>]
    /\ round' = [round EXCEPT ![r] = 0]
    /\ pending' = [pending EXCEPT ![r] = <<>>]
    /\ call' = [call EXCEPT ![r] = NoCall]
    /\ gateway_result' = [gateway_result EXCEPT ![r] = NoResult]
    /\ UNCHANGED db_vars

(***************************************************************************)
(* Replies processed one at a time.                                        *)
(***************************************************************************)
ToolRequest(name, args) ==
    [id |-> "call_1", name |-> name, arguments |-> json_dumps(args)]

ModelRaises == [kind |-> "raise", content |-> "", tool_calls |-> <<>>]
ModelSays(content) ==
    [kind |-> "message", content |-> content, tool_calls |-> <<>>]
ModelRequests(content, requests) ==
    [kind |-> "message", content |-> content, tool_calls |-> requests]

\* what the model answers in one invocation
Responses(name) ==
    {ModelRaises}
    \cup {ModelSays(c) : c \in ModelTexts(name)}
    \cup {ModelRequests("", <<ToolRequest("escalate", EscalateArgs)>>),
          ModelRequests("", <<ToolRequest("shopify_get_order_details", OrderArgs)>>)}

\* what a tool's run does
Outcomes ==
    {[kind |-> "return", value |-> ToolSuccess]}

NoReplyInFlight == \A r \in Runs : pc[r] = "idle"
NoCallInFlight == NoReplyInFlight /\ observed = NothingObserved

Next ==
    \/ NoCallInFlight /\ StartSession(NextCustomer)
    \/ \E sid \in DOMAIN Customers : NoCallInFlight /\ LoadSession(sid)
    \/ \E sid \in DOMAIN Customers : NoCallInFlight /\ GetTrace(sid)
    \/ Observe
    \/ \E sid \in DOMAIN Customers, m \in CustomerMessages :
         NoCallInFlight /\ ReplyBegin(1, sid, m)
    \/ ReplyPersistUser(1)
    \/ ReplyLoadHistory(1)
    \/ AgentAct(1)
    \/ \E response \in Responses(AGENTS[agent_idx[1]]) :
         GatewayInvoke(1, response)
    \/ ExecuteEscalate(1)
    \/ RecordEscalation(1)
    \/ \E outcome \in Outcomes : ExecuteTool(1, outcome)
    \/ LogToolCall(1)
    \/ GatewayRecord(1)
    \/ AgentSettle(1)
    \/ ReplyAfterRound(1)
    \/ ReplyEscalated(1)
    \/ ReplyAnswered(1)
    \/ ReplyReturn(1)

Spec == Init /\ [][Next]_vars

(***************************************************************************)
(* One session whose agents request tools, and tools that succeed, fail,   *)
(* return something that is no result object, or raise.                    *)
(***************************************************************************)
\* the arguments the model gives with each tool name it requests
RequestArgs(name) ==
    CASE name = "escalate" -> EscalateArgs
      [] name = "shopify_get_order_details" -> OrderArgs
      [] name = "shopify_refund_order" -> RefundArgs
      [] name = "shopify_get_related_knowledge_source" -> KnowledgeArgs
      [] OTHER -> EmptyArgs

\* the tool names the model asks for during each agent's turn: names of the
\* agent's own subset, names outside it, and one no tool has
ToolRequestNames(name) ==
    CASE name = "RouterAgent" ->
           {"shopify_get_order_details", "shopify_refund_order"}
      [] name = "PolicyAgent" -> {"escalate", "lookup_weather"}
      [] OTHER -> {"shopify_refund_order"}

\* what the model answers in one invocation: nothing, a text, one tool
\* request, or two requests in one response
ToolResponses(name) ==
    {ModelSays("")}
    \cup {ModelSays(c) : c \in IF name = "ExecutorAgent" THEN ModelTexts(name)
                                ELSE {}}
    \cup {ModelRequests("", <<ToolRequest(n, RequestArgs(n))>>) :
             n \in ToolRequestNames(name)}
    \cup {ModelRequests("", <<ToolRequest("shopify_get_order_details", OrderArgs),
                              ToolRequest("escalate", EscalateArgs)>>) :
             n \in {name} \cap {"ExecutorAgent"}}

ToolNext ==
    \/ NoCallInFlight /\ email_sessions = <<>> /\ StartSession(NextCustomer)
    \/ \E sid \in DOMAIN Customers : NoCallInFlight /\ GetTrace(sid)
    \/ Observe
    \/ \E sid \in DOMAIN Customers :
         NoCallInFlight /\ ReplyBegin(1, sid, "Where is my order?")
    \/ ReplyPersistUser(1)
    \/ ReplyLoadHistory(1)
    \/ AgentAct(1)
    \/ \E response \in ToolResponses(AGENTS[agent_idx[1]]) :
         GatewayInvoke(1, response)
    \/ ExecuteEscalate(1)
    \/ RecordEscalation(1)
    \/ \E outcome \in ToolRunOutcomes : ExecuteTool(1, outcome)
    \/ LogToolCall(1)
    \/ GatewayRecord(1)
    \/ AgentSettle(1)
    \/ ReplyAfterRound(1)
    \/ ReplyEscalated(1)
    \/ ReplyAnswered(1)
    \/ ReplyReturn(1)

ToolSpec == Init /\ [][ToolNext]_vars

\* a reply in flight is synchronous code: its next step is always taken
ReplyStep ==
    \/ ReplyPersistUser(1)
    \/ ReplyLoadHistory(1)
    \/ AgentAct(1)
    \/ \E response \in ToolResponses(AGENTS[agent_idx[1]]) :
         GatewayInvoke(1, response)
    \/ ExecuteEscalate(1)
    \/ RecordEscalation(1)
    \/ \E outcome \in ToolRunOutcomes : ExecuteTool(1, outcome)
    \/ LogToolCall(1)
    \/ GatewayRecord(1)
    \/ AgentSettle(1)
    \/ ReplyAfterRound(1)
    \/ ReplyEscalated(1)
    \/ ReplyAnswered(1)

ToolFairSpec == ToolSpec /\ WF_vars(ReplyStep)

(***************************************************************************)
(* One session with several replies, whose Router and Executor may ask for *)
(* a tool in every model response of a turn, up to the round limit.        *)
(***************************************************************************)
\* a tool-call request with the arguments text as the model wrote it
RawRequest(name, text) == [id |-> "call_1", name |-> name, arguments |-> text]

\* the arguments texts of a request: the tool's own arguments, no text, a
\* text that is no JSON, JSON documents that are no object, and an object
\* with an object inside
ArgumentTexts(name) ==
    {json_dumps(RequestArgs(name)), "", TRUNCATED_JSON,
     json_dumps(PyNone), json_dumps(PyStr("#43189")),
     json_dumps(StructuredReasonArgs)}

\* what the model answers in one invocation: nothing, a text, or one tool
\* request
ArgsResponses(name) ==
    {ModelSays("")}
    \cup {ModelSays(c) : c \in IF name = "ExecutorAgent" THEN ModelTexts(name)
                                ELSE {}}
    \cup UNION {{ModelRequests("", <<RawRequest(n, text)>>) :
                    text \in ArgumentTexts(n)} :
                 n \in CASE name = "RouterAgent" -> {"shopify_get_order_details"}
                         [] name = "PolicyAgent" -> {"escalate"}
                         [] OTHER -> {"shopify_refund_order"}}

ArgsNext ==
    \/ NoCallInFlight /\ email_sessions = <<>> /\ StartSession(NextCustomer)
    \/ \E sid \in DOMAIN Customers :
         NoCallInFlight /\ ReplyBegin(1, sid, "Where is my order?")
    \/ ReplyPersistUser(1)
    \/ ReplyLoadHistory(1)
    \/ AgentAct(1)
    \/ \E response \in ArgsResponses(AGENTS[agent_idx[1]]) :
         GatewayInvoke(1, response)
    \/ ExecuteEscalate(1)
    \/ RecordEscalation(1)
    \/ \E outcome \in Outcomes : ExecuteTool(1, outcome)
    \/ LogToolCall(1)
    \/ GatewayRecord(1)
    \/ AgentSettle(1)
    \/ ReplyAfterRound(1)
    \/ ReplyEscalated(1)
    \/ ReplyAnswered(1)
    \/ ReplyReturn(1)

ArgsSpec == Init /\ [][ArgsNext]_vars

(***************************************************************************)
\* the text each caller sends
CallerMessage(r) == IF r = 1 THEN "Where is my order?"
                    ELSE "Please cancel my subscription."

\* what the model answers in one invocation: the Policy agent lets the
\* request pass or escalates, the Executor writes to the customer
ConcurrentResponses(name) ==
    CASE name = "RouterAgent" -> {ModelSays("")}
      [] name = "PolicyAgent" ->
           {ModelSays(""), ModelRequests("", <<ToolRequest("escalate", EscalateArgs)>>)}
      [] OTHER -> {ModelSays("Your order #43189 is in transit.")}

\* the customer messages taken in or about to be
RepliesBegun ==
    RepliesTaken + Cardinality({r \in Runs : pc[r] = "persist_user"})

\* the reply calls of two callers interleave: reply holds no lock, and each
\* statement that reads or writes the database is a step of its own; the
\* customers write in in the order of their sessions
ConcurrentNext ==
    \/ NoReplyInFlight /\ session_messages = <<>> /\ StartSession(NextCustomer)
    \/ \E r \in Runs, sid \in DOMAIN Customers :
         /\ sid \in DOMAIN email_sessions
         /\ RepliesBegun < MaxConcurrentReplies
         /\ \A earlier \in 1..(sid - 1) :
              \/ get_session_messages(session_messages, earlier) # <<>>
              \/ \E q \in Runs : session_id[q] = earlier
         /\ ReplyStart(r, sid, CallerMessage(r))
    \/ \E r \in Runs :
         \/ ReplyPersistUser(r)
         \/ ReplyLoadHistory(r)
         \/ AgentAct(r)
         \/ \E response \in ConcurrentResponses(AGENTS[agent_idx[r]]) :
              GatewayInvoke(r, response)
         \/ ExecuteEscalate(r)
         \/ RecordEscalation(r)
         \/ LogToolCall(r)
         \/ GatewayRecord(r)
         \/ AgentSettle(r)
         \/ ReplyAfterRound(r)
         \/ ReplyEscalated(r)
         \/ ReplyAnswered(r)
         \/ ReplyReturn(r)

ConcurrentSpec == Init /\ [][ConcurrentNext]_vars

(***************************************************************************)
\* agents.py:98-132: MultiAgentSystem.run is called on the agents of a
\* session with a message, no initial messages and max_turns = n
RunCall(r, sid, m, n) ==
    /\ UNCHANGED observed
    /\ pc[r] = "idle"
    /\ sid \in DOMAIN email_sessions
    /\ session_id' = [session_id EXCEPT ![r] = sid]
    /\ customer_message' = [customer_message EXCEPT ![r] = m]
    /\ history' = [history EXCEPT ![r] = seed_messages(m, <<>>)]
    /\ max_turns' = [max_turns EXCEPT ![r] = n]
    /\ turn' = [turn EXCEPT ![r] = 0]
    /\ agent_idx' = [agent_idx EXCEPT ![r] = 1]
    /\ any_response' = [any_response EXCEPT ![r] = FALSE]
    /\ pc' = [pc EXCEPT ![r] = IF n > 0 THEN "act" ELSE "after_round"]
    /\ UNCHANGED <<db_vars, tool_call_collector, trace, gateway_vars>>

\* agents.py:144: run returns its messages to the caller
RunReturn(r) ==
    /\ UNCHANGED observed
    /\ pc[r] = "after_round"
    /\ pc' = [pc EXCEPT ![r] = "idle"]
    /\ session_id' = [session_id EXCEPT ![r] = 0]
    /\ customer_message' = [customer_message EXCEPT ![r] = ""]
    /\ history' = [history EXCEPT ![r] = <<>>]
    /\ max_turns' = [max_turns EXCEPT ![r] = 0]
    /\ turn' = [turn EXCEPT ![r] = 0]
    /\ agent_idx' = [agent_idx EXCEPT ![r] = 1]
    /\ any_response' = [any_response EXCEPT ![r] = FALSE]
    /\ UNCHANGED <<db_vars, tool_call_collector, trace, gateway_vars>>

\* what the model answers in one invocation: nothing or the agent's text
TurnResponses(name) == {ModelSays(c) : c \in ModelTexts(name)}

TurnsNext ==
    \/ NoReplyInFlight /\ email_sessions = <<>> /\ StartSession(NextCustomer)
    \/ \E sid \in DOMAIN Customers, n \in 0..MaxTurns :
         RunCall(1, sid, "Where is my order?", n)
    \/ AgentAct(1)
    \/ \E response \in TurnResponses(AGENTS[agent_idx[1]]) :
         GatewayRound(1, response)
    \/ AgentSettle(1)
    \/ RunReturn(1)

TurnsSpec == Init /\ [][TurnsNext]_vars

(***************************************************************************)
\* what the model answers in one invocation: nothing, a text, or a text
\* together with one tool request
RoundResponses(name) ==
    {ModelSays("")}
    \cup {ModelSays(c) : c \in IF name = "PolicyAgent" THEN {}
                                ELSE ModelTexts(name)}
    \cup {ModelRequests("Checking your order.",
                        <<ToolRequest("shopify_get_order_details", OrderArgs)>>) :
             n \in {name} \cap {"ExecutorAgent"}}

\* the steps of the reply in flight
RoundStep ==
    \/ ReplyPersistUser(1)
    \/ ReplyLoadHistory(1)
    \/ AgentAct(1)
    \/ \E response \in RoundResponses(AGENTS[agent_idx[1]]) :
         GatewayRound(1, response)
    \/ GatewayRoundLimit(1)
    \/ \E outcome \in Outcomes : ExecuteTool(1, outcome)
    \/ LogToolCall(1)
    \/ GatewayRecord(1)
    \/ AgentSettle(1)
    \/ ReplyAfterRound(1)
    \/ ReplyAnswered(1)

RoundNext ==
    \/ NoCallInFlight /\ email_sessions = <<>> /\ StartSession(NextCustomer)
    \/ \E sid \in DOMAIN Customers, m \in CustomerMessages :
         /\ NoCallInFlight
         /\ RepliesTaken < MaxRoundReplies
         /\ ReplyStart(1, sid, m)
    \/ RoundStep
    \/ ReplyReturn(1)

RoundSpec == Init /\ [][RoundNext]_vars

RoundFairSpec == RoundSpec /\ WF_vars(RoundStep)

(***************************************************************************)
(* Properties.                                                             *)
(***************************************************************************)
InCall(r) == pc[r] # "idle"
Returned(r) == pc[r] = "returned"
ReturnedTrace(r) == Returned(r) /\ trace[r].kind = "SessionTrace"
Escalated(sid) == email_sessions[sid].escalated

MessagesOf(sid) == SelectSeq(session_messages, LAMBDA row : row.session_id = sid)
ToolCallsOf(sid) == SelectSeq(tool_calls, LAMBDA row : row.session_id = sid)
EscalationsOf(sid) == SelectSeq(escalations, LAMBDA row : row.session_id = sid)
Persisted(sid) == <<MessagesOf(sid), ToolCallsOf(sid), EscalationsOf(sid)>>

\* the log of the run's session holds the run's customer message as a user entry
UserEntryLogged(r) ==
    \E i \in DOMAIN session_messages :
        /\ session_messages[i].session_id = session_id[r]
        /\ session_messages[i].role = "user"
        /\ session_messages[i].content = customer_message[r]

\* the last row of the run's session is the assistant message with this content
AssistantLogged(r, content) ==
    LET rows == MessagesOf(session_id[r])
    IN /\ rows # <<>>
       /\ rows[Len(rows)].role = "assistant"
       /\ rows[Len(rows)].content = content

\* the positions of the messages the agents appended in the round
RoundMessages(r) ==
    {i \in DOMAIN history[r] : history[r][i].role = "agent"
                               /\ history[r][i].sender \in {AGENTS[k] : k \in DOMAIN AGENTS}}

\* C1: a reply that starts on an escalated session returns None at once: it
\* enters no agent turn and executes no tool, whatever the message.
C1_EscalatedReplyReturnsNone ==
    [][\A r \in Runs :
         /\ (pc[r] = "idle" /\ pc'[r] # "idle" /\ Escalated(session_id'[r]))
              => /\ pc'[r] = "returned"
                 /\ trace'[r] = NoTrace
                 /\ history'[r] = <<>>
                 /\ tool_call_collector'[r] = <<>>
         /\ (Returned(r) /\ trace[r] = NoTrace)
              => /\ pc'[r] \in {"returned", "idle"}
                 /\ tool_calls' = tool_calls]_vars

C1_Witness ==
    \E r \in Runs :
        /\ Returned(r) /\ trace[r] = NoTrace
        /\ Escalated(session_id[r])
        /\ customer_message[r] # ""

\* C2: a new session is not escalated, and an escalated session stays
\* escalated through every step.
C2_EscalatedMonotonic ==
    [][/\ \A sid \in DOMAIN email_sessions :
            /\ sid \in DOMAIN email_sessions'
            /\ Escalated(sid) => email_sessions'[sid].escalated
       /\ \A sid \in DOMAIN email_sessions' \ DOMAIN email_sessions :
            ~email_sessions'[sid].escalated]_vars

C2_Witness ==
    /\ Len(email_sessions) = 2
    /\ Escalated(1) /\ ~Escalated(2)
    /\ Len(EscalationsOf(1)) = 2
    /\ observed.call = "get_trace" /\ observed.escalated

\* C3: with no reply in flight, a session has exactly one escalation record
\* if it is escalated and none otherwise.
C3_OneEscalationRecord ==
    NoReplyInFlight =>
        \A sid \in DOMAIN email_sessions :
            Len(EscalationsOf(sid)) = IF Escalated(sid) THEN 1 ELSE 0

\* C4 as stated: after reply(X) returns, whatever the outcome, the log holds
\* a user entry with content X.
C4_UserEntryAfterEveryReply ==
    \A r \in Runs : Returned(r) => UserEntryLogged(r)

\* C4 amended: after reply(X) returns a trace, the log holds a user entry
\* with content X.
C4_UserEntryAfterTrace ==
    \A r \in Runs : ReturnedTrace(r) => UserEntryLogged(r)

C4_Witness ==
    \E r \in Runs :
        /\ ReturnedTrace(r)
        /\ RoundMessages(r) = {}
        /\ UserEntryLogged(r)

\* C5: from the first model invocation on, through every tool execution and
\* also after the call has failed with an exception, the customer message
\* is in the log as a user entry.
C5_PersistedBeforePipeline ==
    \A r \in Runs :
        pc[r] \in {"gateway", "tools", "escalate_record", "log_call",
                   "record_call", "settle", "raised"}
            => UserEntryLogged(r)

C5_Witness ==
    \E r \in Runs :
        /\ pc[r] = "raised"
        /\ UserEntryLogged(r)
        /\ MessagesOf(session_id[r])[Len(MessagesOf(session_id[r]))].role = "user"

\* C6: a reply on an already-escalated session writes nothing: from its start
\* to its return the session's messages, tool-call records and escalation
\* records stay as they were.
C6_EscalatedReplyWritesNothing ==
    [][\A r \in Runs, sid \in DOMAIN email_sessions :
         /\ (/\ pc[r] = "idle" /\ pc'[r] # "idle"
             /\ session_id'[r] = sid /\ Escalated(sid))
              => /\ pc'[r] = "returned"
                 /\ Persisted(sid)' = Persisted(sid)
         /\ (Returned(r) /\ trace[r] = NoTrace /\ session_id[r] = sid)
              => Persisted(sid)' = Persisted(sid)]_vars

C6_Witness ==
    \E r \in Runs :
        /\ Returned(r) /\ trace[r] = NoTrace
        /\ Len(MessagesOf(session_id[r])) = 2
        /\ ~UserEntryLogged(r)

\* C7: when the session is escalated at the end of the round, the assistant
\* message the reply persists and the trace's final_message are the fixed
\* acknowledgment.
C7_EscalatedReplyIsAcknowledgment ==
    \A r \in Runs :
        (ReturnedTrace(r) /\ Escalated(session_id[r]))
            => /\ trace[r].final_message = ESCALATION_ACK
               /\ AssistantLogged(r, ESCALATION_ACK)

C7_Witness ==
    \E r \in Runs :
        /\ ReturnedTrace(r) /\ Escalated(session_id[r])
        /\ trace[r].final_message = ESCALATION_ACK
        /\ \E i \in RoundMessages(r) :
              /\ history[r][i].sender = "ExecutorAgent"
              /\ history[r][i].content \notin {"", NO_TEXT_OUTPUT}

\* C8: the assistant message of a reply that did not escalate was authored
\* by the Executor agent in that round.
C8_AssistantAuthoredByExecutor ==
    \A r \in Runs :
        (ReturnedTrace(r) /\ ~Escalated(session_id[r]))
            => \E i \in RoundMessages(r) :
                  /\ history[r][i].sender = "ExecutorAgent"
                  /\ AssistantLogged(r, history[r][i].content)

\* C9: a round in which no agent gave a message or called a tool ends, on a
\* session that is not escalated, with the apology as final_message.
C9_SilentRoundApology ==
    \A r \in Runs :
        (/\ ReturnedTrace(r) /\ ~Escalated(session_id[r])
         /\ RoundMessages(r) = {} /\ tool_call_collector[r] = <<>>)
            => trace[r].final_message = APOLOGY

\* C10: in a reply that did not escalate and in which an agent gave a
\* message, final_message and the persisted assistant message are the last
\* Executor message that is neither empty nor the placeholder, or else the
\* last message of the round.
C10_FinalMessageSelection ==
    \A r \in Runs :
        (ReturnedTrace(r) /\ ~Escalated(session_id[r]) /\ RoundMessages(r) # {})
            => LET qualifying ==
                     {i \in RoundMessages(r) :
                         /\ history[r][i].sender = "ExecutorAgent"
                         /\ history[r][i].content \notin {"", NO_TEXT_OUTPUT}}
                   pick == IF qualifying # {}
                           THEN CHOOSE i \in qualifying :
                                   \A j \in qualifying : j <= i
                           ELSE Len(history[r])
               IN /\ trace[r].final_message = history[r][pick].content
                  /\ AssistantLogged(r, history[r][pick].content)

C10_Witness ==
    \E r \in Runs :
        /\ ReturnedTrace(r) /\ ~Escalated(session_id[r])
        /\ \E i \in RoundMessages(r) : history[r][i].sender = "PolicyAgent"
        /\ \A i \in RoundMessages(r) : history[r][i].sender # "ExecutorAgent"
        /\ trace[r].final_message = "PROCEED"

RaisingRun == [kind |-> "raise", value |-> PyStr("connection reset")]
RaisedPayload == json_dumps(ErrorPayload("connection reset"))

\* the run is handing the gateway the error payload of a tool that raised
AbsorbedRaise(r) == pc[r] = "log_call" /\ call[r].out = RaisedPayload

\* C11: when a registered tool's run raises, the executor hands back the
\* payload {success: false, error: message} and no exception leaves it; the
\* tool-call record written for the call holds that payload; and the reply
\* goes on to return a trace with a final_message.
C11_ToolExceptionAbsorbed ==
    /\ [][\A r \in Runs :
            /\ (/\ ExecuteTool(r, RaisingRun)
                /\ Head(pending[r]).name \in REGISTERED_TOOLS)
                 => /\ pc'[r] = "log_call"
                    /\ call'[r].out = RaisedPayload
            /\ AbsorbedRaise(r)
                 => /\ pc'[r] = "record_call"
                    /\ tool_calls'[Len(tool_calls')].session_id = session_id[r]
                    /\ tool_calls'[Len(tool_calls')].tool_output = RaisedPayload
            /\ pc'[r] # "raised"]_vars
    /\ \A r \in {1} :
          AbsorbedRaise(r)
              ~> (ReturnedTrace(r) /\ trace[r].final_message \in STRING)

C11_Witness ==
    \E r \in Runs :
        /\ ReturnedTrace(r)
        /\ \E i \in DOMAIN trace[r].tool_calls :
              /\ trace[r].tool_calls[i].name = "shopify_refund_order"
              /\ trace[r].tool_calls[i].result = RaisedPayload
        /\ \E i \in DOMAIN tool_calls : tool_calls[i].tool_output = RaisedPayload

\* the text is not that of a JSON object with a success field
Malformed(out) ==
    \/ ~json_loads(out).ok
    \/ ~IsDict(json_loads(out).value)
    \/ ~HasKey(json_loads(out).value, "success")

\* the last record of the tool-call log
LastToolCall == tool_calls[Len(tool_calls)]

UnknownName(name) == name \notin REGISTERED_TOOLS \cup {"", "escalate"}
UnknownPayload(name) == json_dumps(ErrorPayload("Unknown tool: " \o name))

\* C13: a call of a name that is neither escalate nor registered gives the
\* payload {success: false, error: "Unknown tool: name"} and raises nothing;
\* of the persisted state only the tool-call log changes, by the one record
\* of the call; and the gateway loop goes on.
C13_UnknownToolPayload ==
    [][\A r \in Runs :
         /\ (/\ pc[r] = "tools" /\ pending[r] # <<>>
             /\ UnknownName(Head(pending[r]).name))
              => /\ pc'[r] = "log_call"
                 /\ call'[r].name = Head(pending[r]).name
                 /\ call'[r].out = UnknownPayload(Head(pending[r]).name)
                 /\ db_vars' = db_vars
         /\ (pc[r] = "log_call" /\ UnknownName(call[r].name))
              => /\ pc'[r] = "record_call"
                 /\ <<email_sessions, session_messages, escalations>>'
                      = <<email_sessions, session_messages, escalations>>
                 /\ tool_calls' =
                      Append(tool_calls,
                             [id |-> Len(tool_calls) + 1,
                              session_id |-> session_id[r],
                              tool_name |-> call[r].name,
                              tool_input |-> json_dumps(call[r].arguments),
                              tool_output |-> UnknownPayload(call[r].name)])
         /\ (pc[r] = "record_call" /\ UnknownName(call[r].name))
              => /\ pc'[r] \in {"tools", "gateway"}
                 /\ all_tool_calls'[r][Len(all_tool_calls'[r])].result
                      = UnknownPayload(call[r].name)
                 /\ db_vars' = db_vars]_vars

C13_Witness ==
    \E r \in Runs :
        /\ ReturnedTrace(r)
        /\ \E i \in DOMAIN trace[r].tool_calls :
              /\ trace[r].tool_calls[i].name = "lookup_weather"
              /\ trace[r].tool_calls[i].result = UnknownPayload("lookup_weather")
        /\ Len(ToolCallsOf(session_id[r])) = 1
        /\ Len(EscalationsOf(session_id[r])) = 0

\* C14: a call requested during an agent's turn for a name outside that
\* agent's tool subset is not run and gives the Unknown-tool payload.
C14_DispatchRestrictedPerAgent ==
    \A r \in Runs :
        (/\ pc[r] \in {"log_call", "record_call"}
         /\ call[r].name \notin tool_definitions(AGENTS[agent_idx[r]]))
            => call[r].out = UnknownPayload(call[r].name)

\* the catalog an agent's model invocation is given
OfferedTools(r) == tool_definitions(AGENTS[agent_idx[r]])

\* C15 as stated: the catalog given to an agent's model invocation shares no
\* tool name with the subset of either other agent.
C15_ToolSubsetsDisjoint ==
    \A r \in Runs :
        pc[r] = "gateway" =>
            \A j \in DOMAIN AGENTS :
                j # agent_idx[r] =>
                    OfferedTools(r) \cap tool_definitions(AGENTS[j]) = {}

\* C15 amended: the catalog given to an agent's model invocation lies within
\* the Executor's subset, and the Router's and the Policy's subsets share no
\* name.
C15_ToolSubsetsNested ==
    \A r \in Runs :
        pc[r] = "gateway" =>
            /\ OfferedTools(r) \subseteq tool_definitions("ExecutorAgent")
            /\ \A j \in DOMAIN AGENTS :
                  (/\ j # agent_idx[r]
                   /\ "ExecutorAgent" \notin {AGENTS[j], AGENTS[agent_idx[r]]})
                      => OfferedTools(r) \cap tool_definitions(AGENTS[j]) = {}

C15_Witness ==
    \E r \in Runs :
        /\ ReturnedTrace(r)
        /\ \E i, j \in DOMAIN trace[r].tool_calls :
              /\ trace[r].tool_calls[i].agent = "PolicyAgent"
              /\ trace[r].tool_calls[j].agent = "ExecutorAgent"
              /\ trace[r].tool_calls[i].name = trace[r].tool_calls[j].name
              /\ trace[r].tool_calls[i].name
                   \in tool_definitions("PolicyAgent")
                       \cap tool_definitions("ExecutorAgent")

\* the record the executor writes for the call the run is executing
RecordOf(r) ==
    [id |-> Len(tool_calls) + 1, session_id |-> session_id[r],
     tool_name |-> call[r].name,
     tool_input |-> json_dumps(call[r].arguments),
     tool_output |-> json_dumps(parse_output(call[r].out))]

\* C16: every call the executor has carried out, whatever its result, is
\* followed by exactly one new record of the session's tool-call log with
\* the call's name, input and output; nothing else adds a record; and the
\* gateway loop receives a result only after the record of its call is in
\* the log.
C16_OneRecordPerExecution ==
    [][\A r \in Runs :
         /\ pc[r] = "log_call"
              => /\ pc'[r] = "record_call"
                 /\ tool_calls' = Append(tool_calls, RecordOf(r))
                 /\ all_tool_calls'[r] = all_tool_calls[r]
         /\ (\A q \in Runs : pc[q] # "log_call") => tool_calls' = tool_calls
         /\ pc'[r] = "log_call"
              => /\ pc[r] \in {"tools", "escalate_record"}
                 /\ call'[r].name = Head(pending[r]).name
         /\ Len(all_tool_calls'[r]) > Len(all_tool_calls[r])
              => /\ pc[r] = "record_call"
                 /\ all_tool_calls'[r] =
                      Append(all_tool_calls[r],
                             [name |-> call[r].name,
                              arguments |-> call[r].arguments,
                              result |-> call[r].out])
                 /\ LastToolCall.session_id = session_id[r]
                 /\ LastToolCall.tool_name = call[r].name
                 /\ LastToolCall.tool_input = json_dumps(call[r].arguments)]_vars

C16_Witness ==
    \E r \in Runs :
        /\ pc[r] = "record_call"
        /\ call[r].name = "escalate"
        /\ Len(ToolCallsOf(session_id[r])) = 2
        /\ LastToolCall.tool_name = "escalate"
        /\ tool_calls[1].tool_output = RaisedPayload
        /\ Len(all_tool_calls[r]) = 0

RECURSIVE IsSubsequence(_, _)
\* the entries of a are entries of b, in the same order
IsSubsequence(a, b) ==
    IF a = <<>> THEN TRUE
    ELSE IF b = <<>> THEN FALSE
    ELSE IF Head(a) = Head(b) THEN IsSubsequence(Tail(a), Tail(b))
    ELSE IsSubsequence(a, Tail(b))

\* the tool invocations of a returned trace that are not escalate calls, and
\* those that are
ToolInvocations(r) ==
    SelectSeq(trace[r].tool_calls, LAMBDA c : c.name # "escalate")
EscalateCalls(r) ==
    SelectSeq(trace[r].tool_calls, LAMBDA c : c.name = "escalate")

\* '<agent>/<tool>(<arguments as JSON>)'
ActionEntry(c) ==
    c.agent \o "/" \o c.name \o "(" \o json_dumps(c.arguments) \o ")"

\* C17 as stated: the actions_taken of every returned trace holds the entry of each
\* tool invocation of the run that is not an escalate call, in call order.
C17_ActionsListEveryInvocation ==
    \A r \in Runs :
        ReturnedTrace(r)
            => IsSubsequence([i \in DOMAIN ToolInvocations(r) |->
                                ActionEntry(ToolInvocations(r)[i])],
                             trace[r].actions_taken)

\* C17 amended: the actions_taken of a trace returned by a reply whose round
\* did not escalate the session is the list of the entries of the run's tool
\* invocations, in call order.
C17_ActionsOfAnsweredReply ==
    \A r \in Runs :
        (ReturnedTrace(r) /\ ~Escalated(session_id[r]))
            => /\ EscalateCalls(r) = <<>>
               /\ trace[r].actions_taken =
                    [i \in DOMAIN ToolInvocations(r) |->
                       ActionEntry(ToolInvocations(r)[i])]

C17_Witness ==
    \E r \in Runs :
        /\ ReturnedTrace(r) /\ ~Escalated(session_id[r])
        /\ trace[r].actions_taken =
             <<"RouterAgent/shopify_get_order_details({\"orderId\": \"#43189\"})",
               "ExecutorAgent/shopify_refund_order({\"orderId\": \"#43189\", \"refundMethod\": \"STORE_CREDIT\"})">>

\* C18: the actions_taken of a reply whose round escalated the session is
\* 'escalated_to_human' followed by one 'escalate: <reason>' per escalate
\* call of the run, in call order.
C18_EscalatedActions ==
    \A r \in Runs :
        (ReturnedTrace(r) /\ Escalated(session_id[r]))
            => trace[r].actions_taken =
                 <<"escalated_to_human">>
                 \o [i \in DOMAIN EscalateCalls(r) |->
                       "escalate: "
                       \o DictGet(EscalateCalls(r)[i].arguments, "reason",
                                  PyStr("")).v]

C18_Witness ==
    \E r \in Runs :
        /\ ReturnedTrace(r) /\ Escalated(session_id[r])
        /\ Len(EscalateCalls(r)) = 2
        /\ trace[r].actions_taken =
             <<"escalated_to_human", "escalate: Out of scope",
               "escalate: Out of scope">>

EscalateDone(r) == pc[r] = "log_call" /\ call[r].name = "escalate"

\* C20: when the executor has carried out escalate, the session is flagged
\* escalated, the last escalation record is the session's and holds the
\* reason, the summary for the team and the customer's email and name, and
\* the result is the fixed acknowledgment; the call reaches no registered
\* tool; and a get_trace of a session with an escalation record reports
\* escalated = true.
C20_EscalateEffects ==
    /\ [](\A r \in Runs :
            EscalateDone(r)
              => /\ Escalated(session_id[r])
                 /\ escalations # <<>>
                 /\ LET row == escalations[Len(escalations)]
                        args == call[r].arguments
                        who == email_sessions[session_id[r]].customer
                    IN /\ row.session_id = session_id[r]
                       /\ row.reason = DictGet(args, "reason", PyNone).v
                       /\ row.summary_json =
                            json_dumps(PyDict(
                                << <<"reason", DictGet(args, "reason", PyNone)>>,
                                   <<"summary_for_team",
                                     DictGet(args, "summary_for_team", PyNone)>>,
                                   <<"customer_email", PyStr(who.email)>>,
                                   <<"customer_name",
                                     PyStr(who.first_name \o " " \o who.last_name)>> >>))
                 /\ call[r].out =
                      "{\"success\": true, \"escalated\": true, \"message\": "
                      \o "\"Session escalated. No further automatic replies.\"}"
                 /\ get_trace(email_sessions, session_messages, tool_calls,
                              session_id[r]).escalated)
    /\ [][/\ \A r \in Runs :
              (/\ pc[r] = "tools" /\ pending[r] # <<>>
               /\ Head(pending[r]).name = "escalate")
                 => /\ pc'[r] = "escalate_record"
                    /\ \A outcome \in ToolRunOutcomes : ~ExecuteTool(r, outcome)
           /\ \A sid \in DOMAIN Customers :
                (GetTrace(sid) /\ EscalationsOf(sid) # <<>>)
                   => observed'.escalated]_vars

C20_Witness ==
    /\ observed.call = "get_trace"
    /\ observed.found /\ observed.escalated
    /\ observed.customer_email = "alice@example.com"
    /\ Len(escalations) = 1
    /\ escalations[1].reason = "Out of scope"
    /\ escalations[1].summary_json =
         "{\"reason\": \"Out of scope\", "
         \o "\"summary_for_team\": \"Customer asks for a resend\", "
         \o "\"customer_email\": \"alice@example.com\", "
         \o "\"customer_name\": \"Alice Smith\"}"

\* the registered tools that write: refund, store credit, subscription pause
\* and cancel
SideEffectingTools ==
    {"shopify_refund_order", "shopify_create_store_credit",
     "skio_pause_subscription", "skio_cancel_subscription"}

\* C21: a run has never just carried out the run of a side-effecting tool on
\* a session that an escalate call of the same round has already flagged.
C21_NoWriteAfterEscalate ==
    \A r \in Runs :
        (/\ pc[r] = "log_call"
         /\ call[r].name \in SideEffectingTools
         /\ call[r].out \notin {UnknownPayload(call[r].name),
                                json_dumps(ErrorPayload(ARGUMENT_ERROR))})
            => ~Escalated(session_id[r])

\* C22: the final_message of a returned trace, and the assistant message the
\* reply persisted, is never the placeholder '(no text output)'.
C22_PlaceholderNeverShown ==
    \A r \in Runs :
        ReturnedTrace(r)
            => /\ trace[r].final_message # NO_TEXT_OUTPUT
               /\ ~AssistantLogged(r, NO_TEXT_OUTPUT)

ROUND_LIMIT_ERROR == "Max tool rounds reached without final response."

\* every model invocation of the turn so far has asked for tool calls, and
\* the rounds are used up
RoundsUsedUp(r) == pc[r] = "gateway" /\ round[r] >= max_tool_rounds

\* C23: a turn invokes the model only while fewer than max_tool_rounds
\* invocations have asked for tools, and each invocation either asks for
\* tools, counting one round, or ends the loop; when the rounds are used up
\* the gateway returns empty content, the records of all the calls and the
\* round-limit marker, without raising; and the reply then returns a trace.
C23_RoundLimit ==
    /\ [][\A r \in Runs :
            /\ round'[r] <= max_tool_rounds
            /\ (pc[r] = "gateway" /\ round[r] < max_tool_rounds)
                 => \/ pc'[r] = "tools" /\ round'[r] = round[r] + 1
                    \/ pc'[r] = "settle" /\ round'[r] = round[r]
            /\ RoundsUsedUp(r)
                 => /\ pc'[r] = "settle"
                    /\ current_messages'[r] = current_messages[r]
                    /\ Len(all_tool_calls[r]) >= max_tool_rounds
                    /\ gateway_result'[r] =
                         [content |-> "", tool_calls |-> all_tool_calls[r],
                          error |-> ROUND_LIMIT_ERROR]]_vars
    /\ \A r \in {1} : RoundsUsedUp(r) ~> ReturnedTrace(r)

C23_Witness ==
    \E r \in Runs :
        /\ ReturnedTrace(r)
        /\ Len(trace[r].tool_calls) = max_tool_rounds
        /\ trace[r].tool_calls[max_tool_rounds].agent = "ExecutorAgent"

\* the results of the tool messages of the turn's conversation, in order
ToolMessageResults(r) ==
    LET told == SelectSeq(current_messages[r], LAMBDA m : m.role = "tool")
    IN [i \in 1..Len(told) |-> told[i].content]

\* C24: the first response without a tool call ends the turn: the gateway
\* returns that response's content, no error marker, and the records of the
\* calls of the earlier rounds, one per tool message and in their order; a
\* response with tool calls returns nothing, so its text is never returned.
C24_FirstPlainResponseEnds ==
    /\ [][\A r \in Runs : \A response \in RoundResponses(AGENTS[agent_idx[r]]) :
            GatewayRound(r, response)
              => IF response.tool_calls = <<>>
                 THEN /\ pc'[r] = "settle"
                      /\ gateway_result'[r] =
                           [content |-> response.content,
                            tool_calls |-> all_tool_calls[r], error |-> ""]
                 ELSE /\ pc'[r] = "tools"
                      /\ gateway_result'[r] = gateway_result[r]]_vars
    /\ [](\A r \in Runs :
            (pc[r] = "settle" /\ gateway_result[r].error = "")
              => /\ gateway_result[r].content \in ModelTexts(AGENTS[agent_idx[r]])
                 /\ Len(gateway_result[r].tool_calls) = round[r]
                 /\ [i \in 1..round[r] |-> gateway_result[r].tool_calls[i].result]
                      = ToolMessageResults(r))

C24_Witness ==
    \E r \in Runs :
        /\ pc[r] = "settle"
        /\ gateway_result[r].error = ""
        /\ gateway_result[r].content = "Your order #43189 is in transit."
        /\ Len(gateway_result[r].tool_calls) = 2
        /\ AssistantTexts(r)[2].content = "Checking your order."

\* the positions of a turn inside the gateway's loop
GatewayLoop == {"gateway", "tools", "escalate_record", "log_call", "record_call"}

RECURSIVE RequestedCalls(_)
\* the tool calls the responses of a conversation asked for, in order
RequestedCalls(conversation) ==
    IF conversation = <<>> THEN <<>>
    ELSE LET m == Head(conversation)
         IN (IF m.role = "assistant" THEN m.tool_calls ELSE <<>>)
            \o RequestedCalls(Tail(conversation))

NamesOf(calls) == [i \in 1..Len(calls) |-> calls[i].name]

\* C25: inside a turn, the accumulated records followed by the calls still
\* to run are the calls the responses asked for, in the order asked, over all
\* rounds; every record has its tool message, in the same order and under the
\* id of its request; and the model is invoked again only when every call of
\* the last response has been run and answered.
C25_CallsInRequestedOrder ==
    \A r \in Runs :
        pc[r] \in GatewayLoop
          => LET asked == RequestedCalls(current_messages[r])
                 done == Len(all_tool_calls[r])
                 told == SelectSeq(current_messages[r], LAMBDA m : m.role = "tool")
             IN /\ NamesOf(all_tool_calls[r]) \o NamesOf(pending[r]) = NamesOf(asked)
                /\ Len(told) = done
                /\ \A i \in 1..done :
                      /\ told[i].content = all_tool_calls[r][i].result
                      /\ told[i].tool_call_id = asked[i].id
                /\ pc[r] = "gateway"
                     => /\ pending[r] = <<>>
                        /\ current_messages[r][Len(current_messages[r])].role
                             \in {"tool", "user", "system"}

C25_Witness ==
    \E r \in Runs :
        /\ pc[r] = "gateway"
        /\ NamesOf(all_tool_calls[r]) = <<"shopify_get_order_details", "escalate">>
        /\ Len(AssistantTexts(r)) = 1

\* the call at the head of the pending requests came with a text that is no
\* JSON document
UndecodableCall(r) ==
    /\ pc[r] = "tools"
    /\ pending[r] # <<>>
    /\ Head(pending[r]).arguments = TRUNCATED_JSON

\* C26: a call whose arguments text is no JSON is executed with the empty
\* mapping: the executor takes it without raising, the call is recorded
\* with the empty mapping as its arguments, and the turn goes on to the next
\* model invocation with the call's tool message in the conversation.
C26_UndecodableArgumentsBecomeEmpty ==
    /\ [][\A r \in Runs :
            UndecodableCall(r)
              => /\ pc'[r] \in {"log_call", "escalate_record"}
                 /\ call'[r].name = Head(pending[r]).name
                 /\ call'[r].arguments = EmptyArgs]_vars
    /\ [](\A r \in Runs :
            pc[r] \in GatewayLoop
              => LET asked == RequestedCalls(current_messages[r])
                 IN \A i \in 1..Len(all_tool_calls[r]) :
                      asked[i].arguments = TRUNCATED_JSON
                        => /\ all_tool_calls[r][i].name = asked[i].name
                           /\ all_tool_calls[r][i].arguments = EmptyArgs
                           /\ \E row \in 1..Len(tool_calls) :
                                 /\ tool_calls[row].tool_name = asked[i].name
                                 /\ tool_calls[row].tool_input = "{}")

C26_Witness ==
    \E r \in Runs :
        /\ pc[r] = "gateway"
        /\ Len(all_tool_calls[r]) = 1
        /\ RequestedCalls(current_messages[r])[1].arguments = TRUNCATED_JSON
        /\ all_tool_calls[r][1].name = "shopify_refund_order"
        /\ tool_calls[Len(tool_calls)].tool_input = "{}"

\* C27: whatever the arguments text of a request, the executor takes the
\* call without raising, so no reply ends in an exception.
C27_ExecutorNeverRaises == \A r \in Runs : pc[r] # "raised"

\* the place of an agent in the list
AgentIndex(name) == CHOOSE k \in DOMAIN AGENTS : AGENTS[k] = name

\* the positions of a reply inside MultiAgentSystem.run's loop
InRound(r) == pc[r] \in {"act", "settle"} \cup GatewayLoop

\* C28: with max_turns = 1 the run's loop goes through the agents once, in
\* list order, and then ends; an agent's turn begins with a conversation
\* holding every message of the accumulated history after the system
\* message, those of the agents before it in the round included; and a turn
\* adds at most one message, sent under the agent's name, so the round's
\* messages come from different agents in list order.
C28_OneTurnPerAgentInOrder ==
    /\ [][\A r \in Runs :
            /\ (pc[r] = "load_history" /\ pc'[r] = "act") => agent_idx'[r] = 1
            /\ (InRound(r) /\ pc[r] # "settle")
                 => /\ agent_idx'[r] = agent_idx[r]
                    /\ history'[r] = history[r]
            /\ (pc[r] = "act" /\ pc'[r] # "act")
                 => /\ pc'[r] = "gateway"
                    /\ Len(current_messages'[r]) = Len(history[r])
                    /\ \A i \in 2..Len(history[r]) :
                         current_messages'[r][i] =
                           [role |-> "user",
                            content |->
                              IF history[r][i].role = "agent"
                              THEN "[" \o history[r][i].sender \o "]: "
                                       \o history[r][i].content
                              ELSE history[r][i].content]
            /\ (pc[r] = "settle" /\ pc'[r] # "settle")
                 => /\ IF agent_idx[r] < Len(AGENTS)
                       THEN pc'[r] = "act" /\ agent_idx'[r] = agent_idx[r] + 1
                       ELSE pc'[r] = "after_round"
                    /\ \/ history'[r] = history[r]
                       \/ /\ Len(history'[r]) = Len(history[r]) + 1
                          /\ SubSeq(history'[r], 1, Len(history[r])) = history[r]
                          /\ history'[r][Len(history'[r])].sender
                               = AGENTS[agent_idx[r]]
            /\ pc[r] = "after_round" => pc'[r] \notin {"act", "gateway", "settle"}]_vars
    /\ [](\A r \in Runs :
            InRound(r)
              => /\ max_turns[r] = 1
                 /\ \A i, j \in RoundMessages(r) :
                      /\ AgentIndex(history[r][i].sender)
                           < agent_idx[r]
                      /\ i < j => AgentIndex(history[r][i].sender)
                                    < AgentIndex(history[r][j].sender))

C28_Witness ==
    \E r \in Runs :
        /\ pc[r] = "gateway"
        /\ agent_idx[r] = Len(AGENTS)
        /\ Len(current_messages[r]) = 4
        /\ current_messages[r][3].content = "[RouterAgent]: " \o NO_TEXT_OUTPUT
        /\ current_messages[r][4].content = "[PolicyAgent]: " \o NO_TEXT_OUTPUT

\* C29: during the round of a reply, the history is the system message, then
\* one entry for each message persisted before this reply, in log order, a
\* customer's as role user and a reply's as role agent, then the new customer
\* message as the last entry of the seed, and after the seed only what the
\* agents of the round said: the inbound message, which is the last row of
\* the log, is in the seed once.
C29_SeedIsLogThenInbound ==
    \A r \in Runs :
        InRound(r)
          => LET rows == MessagesOf(session_id[r])
                 n == Len(rows)
             IN /\ n >= 1
                /\ rows[n].role = "user" /\ rows[n].content = customer_message[r]
                /\ Len(history[r]) = n + 1 + Cardinality(RoundMessages(r))
                /\ RoundMessages(r) = (n + 2)..Len(history[r])
                /\ history[r][1].role = "system"
                /\ \A i \in 1..(n - 1) :
                      /\ history[r][i + 1].content = rows[i].content
                      /\ history[r][i + 1].role =
                           (IF rows[i].role = "user" THEN "user" ELSE "agent")
                      /\ rows[i].role \in {"user", "assistant"}
                /\ history[r][n + 1] = [role |-> "user",
                                        content |-> customer_message[r],
                                        sender |-> "user"]

C29_Witness ==
    \E r \in Runs :
        /\ InRound(r)
        /\ agent_idx[r] = Len(AGENTS)
        /\ Len(MessagesOf(session_id[r])) = 3
        /\ MessagesOf(session_id[r])[2].role = "assistant"
        /\ MessagesOf(session_id[r])[1].content = customer_message[r]
        /\ Cardinality(RoundMessages(r)) = 1

\* C30: when an agent's turn ends, the history gains nothing exactly when
\* the gateway result has empty content and no tool calls; otherwise it gains
\* one message of role agent, sent under the agent's name, whose content is
\* the gateway's text, or the placeholder when the text is empty.
C30_ActReturnsNoneOrOneMessage ==
    [][\A r \in Runs :
         (pc[r] = "settle" /\ pc'[r] # "settle")
           => LET result == gateway_result[r]
                  empty == result.content = "" /\ result.tool_calls = <<>>
              IN /\ history'[r] = history[r] <=> empty
                 /\ ~empty
                      => /\ Len(history'[r]) = Len(history[r]) + 1
                         /\ SubSeq(history'[r], 1, Len(history[r])) = history[r]
                         /\ LET said == history'[r][Len(history'[r])]
                            IN /\ said.role = "agent"
                               /\ said.sender = AGENTS[agent_idx[r]]
                               /\ said.content =
                                    (IF result.content = "" THEN "(no text output)"
                                     ELSE result.content)]_vars

C30_Witness ==
    \E r \in Runs :
        /\ pc[r] = "act"
        /\ agent_idx[r] = Len(AGENTS)
        /\ gateway_result[r].content = ""
        /\ gateway_result[r].tool_calls # <<>>
        /\ Cardinality(RoundMessages(r)) = 1
        /\ history[r][Len(history[r])] =
             [role |-> "agent", content |-> "(no text output)",
              sender |-> "PolicyAgent", tool_calls |-> gateway_result[r].tool_calls]

\* the entries of the shared history that are no system message, in order
Unsystematic(messages) == SelectSeq(messages, LAMBDA m : m.role # "system")

\* C31: during an agent's turn the conversation sent to the gateway starts
\* with the agent's own prompt as its only system message; then comes one
\* user-role entry for each entry of the shared history that is no system
\* message, in the history's order: a user message with its content
\* unchanged, an agent message as "[sender]: content".
C31_RenderedConversation ==
    \A r \in Runs :
        pc[r] \in GatewayLoop \cup {"settle"}
          => LET shared == Unsystematic(history[r])
                 sent == current_messages[r]
             IN /\ Len(sent) >= Len(shared) + 1
                /\ sent[1] = [role |-> "system",
                              content |-> system_prompt(AGENTS[agent_idx[r]],
                                                        CustomerOf(r))]
                /\ \A i \in 2..Len(sent) : sent[i].role # "system"
                /\ \A i \in 1..Len(shared) :
                      /\ sent[i + 1].role = "user"
                      /\ shared[i].role = "user"
                           => sent[i + 1].content = shared[i].content
                      /\ shared[i].role = "agent"
                           => sent[i + 1].content =
                                "[" \o shared[i].sender \o "]: " \o shared[i].content

C31_Witness ==
    \E r \in Runs :
        /\ pc[r] = "gateway"
        /\ AGENTS[agent_idx[r]] = "ExecutorAgent"
        /\ Len(history[r]) = 5
        /\ history[r][1].role = "system"
        /\ current_messages[r][2].content = "Where is my order?"
        /\ current_messages[r][3].content = "[agent]: Your order #43189 is in transit."
        /\ current_messages[r][5].content = "[RouterAgent]: SHIPPING_DELAY"

\* C32: while a reply is in its round, a step leaves the shared history as
\* it is, unless it is the end of an agent's turn, which may append one agent
\* message after the entries already there; so the assistant and tool
\* messages of the tool rounds, which the turn's conversation holds, are
\* never in the shared history.
C32_HistoryAppendOnly ==
    /\ [][\A r \in Runs :
            InRound(r)
              => \/ history'[r] = history[r]
                 \/ /\ pc[r] = "settle"
                    /\ Len(history'[r]) = Len(history[r]) + 1
                    /\ SubSeq(history'[r], 1, Len(history[r])) = history[r]
                    /\ history'[r][Len(history'[r])].role = "agent"]_vars
    /\ [](\A r \in Runs : \A i \in DOMAIN history[r] :
            history[r][i].role \in {"system", "user", "agent"})

C32_Witness ==
    \E r \in Runs :
        /\ pc[r] = "settle"
        /\ AGENTS[agent_idx[r]] = "ExecutorAgent"
        /\ Len(AssistantTexts(r)) = 1
        /\ Len(ToolMessageResults(r)) = 2
        /\ Len(history[r]) = 2

\* C33: the collector changes only when an agent's turn ends, and then it
\* gains, after what it holds, one record for each tool call of the turn, in
\* the turn's order, with the call's name, arguments and result and the
\* agent's name; so in a returned trace the records of an agent earlier in
\* the list come before those of an agent later in it.
C33_CollectorTaggedInAgentOrder ==
    /\ [][\A r \in Runs :
            InRound(r)
              => IF pc[r] = "settle" /\ pc'[r] # "settle"
                 THEN LET made == all_tool_calls[r]
                          had == Len(tool_call_collector[r])
                          has == tool_call_collector'[r]
                      IN /\ Len(has) = had + Len(made)
                         /\ SubSeq(has, 1, had) = tool_call_collector[r]
                         /\ \A i \in 1..Len(made) :
                              has[had + i] =
                                [name |-> made[i].name,
                                 arguments |-> made[i].arguments,
                                 result |-> made[i].result,
                                 agent |-> AGENTS[agent_idx[r]]]
                 ELSE tool_call_collector'[r] = tool_call_collector[r]]_vars
    /\ [](\A r \in Runs :
            ReturnedTrace(r)
              => \A i, j \in DOMAIN trace[r].tool_calls :
                   i < j => AgentIndex(trace[r].tool_calls[i].agent)
                              <= AgentIndex(trace[r].tool_calls[j].agent))

C33_Witness ==
    \E r \in Runs :
        /\ ReturnedTrace(r)
        /\ Len(trace[r].tool_calls) = 2
        /\ trace[r].tool_calls[1].agent = "RouterAgent"
        /\ trace[r].tool_calls[1].name = "shopify_get_order_details"
        /\ trace[r].tool_calls[2].agent = "PolicyAgent"

\* the tool calls a run has executed and logged so far: those of the turns
\* that ended, those of the turn in progress, and the one just logged
RunCalls(r) ==
    LET Plain(calls) == [i \in DOMAIN calls |->
                           [name |-> calls[i].name, arguments |-> calls[i].arguments]]
    IN Plain(tool_call_collector[r])
       \o (IF pc[r] \in GatewayLoop \cup {"settle"} THEN Plain(all_tool_calls[r])
           ELSE <<>>)
       \o (IF pc[r] = "record_call" THEN Plain(<<call[r]>>) ELSE <<>>)

\* a reply is under way and has not failed
Running(r) == pc[r] \notin {"idle", "raised"}

\* C34: a reply starts with no call of its own; each of its steps adds as
\* many rows to the session's tool-call log as calls to the run's own list;
\* and the last rows of the log, read back in log order, carry the names and
\* arguments of the run's calls in order.  So when the reply returns a
\* trace, the rows persisted during the run are the trace's tool_calls.
C34_LogMatchesTrace ==
    /\ [][\A r \in Runs :
            /\ (pc[r] = "idle" /\ Running(r)') => RunCalls(r)' = <<>>
            /\ (Running(r) /\ Running(r)')
                 => Len(ToolCallsOf(session_id[r])') - Len(ToolCallsOf(session_id[r]))
                      = Len(RunCalls(r)') - Len(RunCalls(r))]_vars
    /\ [](\A r \in Runs :
            Running(r)
              => LET rows == get_session_tool_calls(tool_calls, session_id[r])
                     made == RunCalls(r)
                     before == Len(rows) - Len(made)
                 IN /\ before >= 0
                    /\ \A i \in DOMAIN made :
                         /\ rows[before + i].tool_name = made[i].name
                         /\ rows[before + i].tool_input = made[i].arguments)
    /\ [](\A r \in Runs :
            ReturnedTrace(r)
              => /\ Len(trace[r].tool_calls) = Len(RunCalls(r))
                 /\ \A i \in DOMAIN trace[r].tool_calls :
                      /\ trace[r].tool_calls[i].name = RunCalls(r)[i].name
                      /\ trace[r].tool_calls[i].arguments = RunCalls(r)[i].arguments)

C34_Witness ==
    \E r \in Runs :
        /\ ReturnedTrace(r)
        /\ Len(trace[r].tool_calls) = 2
        /\ trace[r].tool_calls[1].name # trace[r].tool_calls[2].name
        /\ Len(ToolCallsOf(session_id[r])) = 2
        /\ tool_calls[2].tool_name = trace[r].tool_calls[2].name

\* the executor is in the middle of a call: escalate has set the flag and
\* not yet written its record, or the call has run and is not yet logged
ToolExecutionInProgress == \E r \in Runs : pc[r] \in {"escalate_record", "log_call"}

\* C35: whenever no tool execution is in progress, a session is escalated
\* exactly when it has an escalation record, and exactly when its tool-call
\* log has a row named escalate.
C35_EscalationStateAgrees ==
    ~ToolExecutionInProgress
      => \A sid \in DOMAIN email_sessions :
           /\ Escalated(sid) <=> EscalationsOf(sid) # <<>>
           /\ Escalated(sid)
                <=> \E i \in DOMAIN ToolCallsOf(sid) :
                      ToolCallsOf(sid)[i].tool_name = "escalate"

\* C36: every persisted message has role user or assistant; a reply that
\* has returned a trace has left, as the last two rows of the session's log,
\* its inbound message as user and its final message as assistant; and
\* between calls the log of a session alternates user, assistant, user,
\* assistant, ...
C36_LogAlternates ==
    /\ \A i \in DOMAIN session_messages :
         session_messages[i].role \in {"user", "assistant"}
    /\ \A r \in Runs :
         ReturnedTrace(r)
           => LET rows == MessagesOf(session_id[r])
                  n == Len(rows)
              IN /\ n >= 2
                 /\ rows[n - 1].role = "user"
                 /\ rows[n - 1].content = customer_message[r]
                 /\ rows[n].role = "assistant"
                 /\ rows[n].content = trace[r].final_message
    /\ NoReplyInFlight
         => \A sid \in DOMAIN email_sessions :
              LET rows == MessagesOf(sid)
              IN /\ Len(rows) % 2 = 0
                 /\ \A i \in DOMAIN rows :
                      rows[i].role = (IF i % 2 = 1 THEN "user" ELSE "assistant")

C36_Witness ==
    /\ NoReplyInFlight
    /\ \E sid \in DOMAIN email_sessions :
         /\ Len(MessagesOf(sid)) = 4
         /\ MessagesOf(sid)[1].content = "Where is my order?"
         /\ MessagesOf(sid)[2].content = "Where is my order?"
         /\ MessagesOf(sid)[4].content = "Your order #43189 is in transit."

\* how many entries of a sequence of messages carry this content
Occurrences(messages, content) ==
    Cardinality({i \in DOMAIN messages : messages[i].content = content})

\* C37: when a run rebuilds its history, every message of the session's log
\* at that moment is in the seed once: the seed has as many entries with a
\* content as the log has rows with it, whatever the other callers did
\* before; so the run's own inbound message is there once and none is left
\* out.
C37_SeedUnderInterleaving ==
    [][\A r \in Runs :
         (pc[r] = "load_history" /\ pc'[r] # "load_history")
           => LET rows == MessagesOf(session_id[r])
                  seed == Unsystematic(history'[r])
              IN \A i \in DOMAIN rows :
                   Occurrences(seed, rows[i].content)
                     = Occurrences(rows, rows[i].content)]_vars

\* the acknowledgments in a session's log
Acknowledgments(sid) ==
    {i \in DOMAIN MessagesOf(sid) : MessagesOf(sid)[i].content = ESCALATION_ACK}

\* C38: a step that persists an assistant message on a session whose
\* escalated flag is set does so only when the session has no acknowledgment
\* yet: after the flag is set, no second acknowledgment and no agent reply is
\* persisted, whichever caller's reply it is.
C38_OneMessageAfterEscalation ==
    [][\A sid \in DOMAIN email_sessions :
         (/\ Escalated(sid)
          /\ Len(MessagesOf(sid)') > Len(MessagesOf(sid))
          /\ MessagesOf(sid)'[Len(MessagesOf(sid)')].role = "assistant")
           => Acknowledgments(sid) = {}]_vars

\* C39: a step changes the message log, the tool-call log, the escalation
\* records or the escalated flag of a session only if it is a step of a
\* reply on that session, whatever replies on other sessions are in flight.
C39_SessionsIsolated ==
    [][\A sid \in DOMAIN email_sessions :
         (Persisted(sid)' # Persisted(sid) \/ Escalated(sid)' # Escalated(sid))
           => \E r \in Runs : pc'[r] # pc[r] /\ session_id[r] = sid]_vars

C39_Witness ==
    \E r, q \in Runs :
        /\ InRound(r) /\ InRound(q)
        /\ session_id[r] # session_id[q]
        /\ Escalated(session_id[r]) /\ ~Escalated(session_id[q])
        /\ EscalationsOf(session_id[r]) # <<>> /\ EscalationsOf(session_id[q]) = <<>>
        /\ ToolCallsOf(session_id[r]) # <<>> /\ ToolCallsOf(session_id[q]) = <<>>
        /\ MessagesOf(session_id[q]) # <<>>

\* the run's loop has ended and its messages are the caller's
RunEnded(r) == pc[r] = "after_round"

\* C40: run starts round one when max_turns is positive and otherwise ends
\* at once with the seed alone; any_response is false when a round starts and
\* becomes true when an agent's message is appended; when the last agent of
\* a round has acted, another round follows exactly when some agent of the
\* round responded and fewer than max_turns rounds are done, and the run ends
\* otherwise; so the rounds done never exceed max_turns, and every round
\* before the last added a message.
C40_RoundsOfRun ==
    /\ [][\A r \in Runs :
            /\ (pc[r] = "idle" /\ pc'[r] # "idle")
                 => /\ turn'[r] = 0 /\ ~any_response'[r]
                    /\ RunEnded(r)' <=> max_turns'[r] = 0
                    /\ Len(history'[r]) = 2
                    /\ history'[r][2].content = customer_message'[r]
            /\ (pc[r] = "settle" /\ pc'[r] # "settle")
                 => LET responded == any_response[r] \/ history'[r] # history[r]
                    IN IF agent_idx[r] < Len(AGENTS)
                       THEN /\ turn'[r] = turn[r]
                            /\ any_response'[r] = responded
                            /\ pc'[r] = "act"
                       ELSE /\ turn'[r] = turn[r] + 1
                            /\ ~any_response'[r]
                            /\ IF responded /\ turn[r] + 1 < max_turns[r]
                               THEN pc'[r] = "act" /\ agent_idx'[r] = 1
                               ELSE RunEnded(r)'
            /\ (InRound(r) /\ pc[r] # "settle")
                 => turn'[r] = turn[r] /\ any_response'[r] = any_response[r]]_vars
    /\ [](\A r \in Runs :
            /\ turn[r] <= max_turns[r]
            /\ InRound(r) => turn[r] < max_turns[r] /\ Len(history[r]) >= 2 + turn[r]
            /\ RunEnded(r) => Len(history[r]) >= 2 + turn[r] - 1
            /\ (RunEnded(r) /\ max_turns[r] = 0) => Len(history[r]) = 2)

C40_Witness ==
    \E r \in Runs :
        /\ RunEnded(r)
        /\ max_turns[r] = 3
        /\ turn[r] = 2
        /\ Len(history[r]) = 3

====
